---- MODULE Spec2Model ----
(***************************************************************************)
(* DeepMemory MCP: the readiness gate and write-ahead queue of             *)
(* DeepMemoryServer (index.ts, reproduced in README.md) in front of the    *)
(* SQLiteProvider (better-sqlite3), and the operations of the providers:   *)
(* deletes and updates, cluster deletion (better-sqlite3 and the older     *)
(* sqlite3 provider), withTimeout, the searches and their access counts    *)
(* (SQLite and MySQL), the stubs, the schema migration and the connection  *)
(* pool of MySQLProvider, cluster links and cluster details, and the       *)
(* encryption envelope (encryptContent, decryptContent), which the sources *)
(* at hand describe but do not contain.                                    *)
(* Each part has its own specification over the same variables.            *)
(*                                                                         *)
(* Strings are sequences of one-character strings, so that a SQL LIKE      *)
(* '%q%' is a real substring test.  The queue file and the database file   *)
(* live on disk and survive the process; the fields of DeepMemoryServer    *)
(* and the requests in flight do not.                                      *)
(*                                                                         *)
(* The tool-call handler is installed by the constructor (setupHandlers),  *)
(* and the queue exists "pour accepter les requetes add_memory pendant     *)
(* l'initialisation du stockage": a request is delivered to the handler    *)
(* at any moment of the process's life, before or after the gate opens.    *)
(***************************************************************************)
EXTENDS Integers, Sequences, FiniteSets, TLC

\* ------------------------------------------------------------------ bounds
\* Requests delivered to the tool-call handler over the life of the log.
MaxRequests == 2
\* Processes started one after the other on the same ~/.deepmemory directory.
MaxProcs == 2
\* 100 ms sleeps that fit in the handler's bounded wait (maxWait / 100 ms).
MaxWaitPolls == 1
\* Rows the memories table may hold: a call that would add one more is not taken.
MaxMemories == 4

\* ------------------------------------------------------------ value domains
\* args.content of an add_memory call: a non-empty string, or no content at all.
NoContent == <<"undefined">>
\* The arguments of the add_memory calls delivered: a memory of importance 2,
\* one whose importance 15 is beyond the documented 1..10, and a call without
\* content.
AddMemoryArgs == {[content |-> <<"m">>, importance |-> 2],
                  [content |-> <<"m">>, importance |-> 15],
                  [content |-> NoContent, importance |-> 2]}

VARIABLES
    proc,            \* number of the running process (1, 2, ...)
    runPc,           \* position of run(): initializing, draining, running, failed, exited
    dbState,         \* provider.initialize(): pending, open, failed, closed
    providerReady,   \* DeepMemoryServer.providerReady
    queueProcessing, \* DeepMemoryServer.queueProcessing
    queueExists,     \* whether queue.jsonl exists
    queueFile,       \* the lines of queue.jsonl
    drainPc,         \* drainQueue(): idle, access, read, line, truncate, truncated, done
    drainLines,      \* drainQueue's local `lines`
    drainIdx,        \* index of the next line of the for loop
    processedCount,  \* drainQueue's local processedCount
    drainOutcome,    \* how it returned: none, skipped, missing, empty, completed, error
    memories,        \* rows of the memories table, in insertion order
    nextRowId,       \* stands for randomUUID()
    reqs,            \* the tool calls delivered so far
    nextReq,         \* number of the next tool call
    docs,            \* rows of the docs table, in insertion order
    clock,           \* the wall clock read by new Date()
    lastCall,        \* the last provider call made directly: operation, options, outcome
    provider,        \* the driver behind the provider: "better-sqlite3", "sqlite3" or "mysql2"
    clusters,        \* ids of the rows of the details_clusters table
    clusterDetails,  \* rows of the cluster_details table: [clusterId, key]
    deleteClusterPc, \* the sqlite3 deleteCluster between its two statements
    opPromise,       \* the promise p handed to withTimeout: none, pending, committed, fulfilled, rejected
    timer,           \* withTimeout's setTimeout: none, armed, cleared, fired
    callerOutcome,   \* how the promise returned by withTimeout settled: none, result, error, timeout
    embedding,       \* the embedding column of the MySQL tables: row id -> vector, no entry for NULL
    poolOps,         \* the MySQLProvider calls in progress: kind, position, connections held
    clusterTimes,    \* timestamp columns: cluster id -> updatedAt, detail id -> [clusterId, createdAt, updatedAt]
    privateKey,      \* the private key the envelope service has loaded, 0 when it has none
    metadata,        \* the "encrypted" flag of the metadata column: memory id -> flag, no entry when absent
    lifecycle        \* the provider object: its initPromise, whether the tables exist, an initialize() in progress

vars == <<proc, runPc, dbState, providerReady, queueProcessing, queueExists, queueFile,
          drainPc, drainLines, drainIdx, processedCount, drainOutcome,
          memories, nextRowId, reqs, nextReq, docs, clock, lastCall,
          provider, clusters, clusterDetails, deleteClusterPc,
          opPromise, timer, callerOutcome, embedding, poolOps, clusterTimes,
          privateKey, metadata, lifecycle>>

gateVars == <<proc, runPc, dbState, providerReady, queueProcessing>>
drainVars == <<drainPc, drainLines, drainIdx, processedCount, drainOutcome>>
fileVars == <<queueExists, queueFile>>
tableVars == <<memories, nextRowId>>
reqVars == <<reqs, nextReq>>
clusterVars == <<provider, clusters, clusterDetails, deleteClusterPc>>
timeoutVars == <<opPromise, timer, callerOutcome>>
cryptoVars == <<privateKey, metadata>>
restVars == <<embedding, poolOps, clusterTimes, cryptoVars, lifecycle>>
backendVars == <<clusterVars, timeoutVars, restVars>>
otherVars == <<docs, clock, lastCall, backendVars>>
serverVars == <<gateVars, drainVars, fileVars, reqVars>>

\* ------------------------------------------------------------- queue lines
\* One line of queue.jsonl as handleQueuedAddMemory writes it; id is the
\* request that wrote it (its timestamp). A line that is not JSON has kind "corrupt".
QueueItem(id, content, importance) ==
    [id |-> id, kind |-> "json", name |-> "add_memory", content |-> content, importance |-> importance]

CorruptLine == [id |-> 0, kind |-> "corrupt", name |-> "", content |-> NoContent, importance |-> 0]

\* Mutant: fs.writeFile in place of fs.appendFile, the older lines are lost.
AppendFileOverwrites(file, item) == <<item>>

\* fs.appendFile(queuePath, JSON.stringify(queueItem) + '\n')
AppendFile(file, item) == Append(file, item)

\* ---------------------------------------------------------------- provider
\* A row of the memories table. via/src/byProc record who inserted it (a live
\* handler or the drain, for which request or line, in which process).
\* clusterId: entry.clusterId || null, 0 standing for NULL.
Row(id, memory, now, via, src, p) ==
    [id |-> id, content |-> memory.content, tags |-> memory.tags,
     context |-> memory.context, importance |-> memory.importance,
     timestamp |-> now, lastAccessed |-> now, accessCount |-> 0,
     clusterId |-> IF "clusterId" \in DOMAIN memory THEN memory.clusterId ELSE 0,
     via |-> via, src |-> src, byProc |-> p]

\* SQLiteProvider.addMemory: content TEXT NOT NULL rejects a missing content.
AddMemoryFails(content) == content = NoContent

\* importance: memory.importance || 5
ProviderImportance(importance) == IF importance = 0 THEN 5 ELSE importance

\* SQLiteProvider.addMemory: INSERT INTO memories, timestamp: new Date().
addMemory(table, rowId, memory, now, via, src, p) ==
    Append(table, Row(rowId, [memory EXCEPT !.importance = ProviderImportance(@)],
                      now, via, src, p))

\* SELECT * FROM memories ORDER BY importance DESC: every order of the rows
\* that is descending in importance (SQL leaves the order of ties open).
\* OrderedBy(table, S): the orderings of the rows numbered S, each starting
\* with a row of the greatest importance left.
RECURSIVE OrderedBy(_, _)
OrderedBy(table, S) ==
    IF S = {} THEN {<<>>}
    ELSE UNION { { <<table[i]>> \o rest : rest \in OrderedBy(table, S \ {i}) } :
                 i \in { k \in S : \A m \in S :
                            table[k].importance >= table[m].importance } }

getAllMemories(table) == OrderedBy(table, DOMAIN table)

\* No provider call made directly yet.
NoCall == [op |-> "none"]

\* ------------------------------------------------------------ tool calls
NoRequest == [name |-> "", content |-> NoContent, importance |-> 0, pc |-> "none", polls |-> 0]
GoneRequest == [name |-> "", content |-> NoContent, importance |-> 0, pc |-> "gone", polls |-> 0]

\* A call that has been answered: its arguments are no longer held.
Settled(name, pc, polls) ==
    [name |-> name, content |-> NoContent, importance |-> 0, pc |-> pc, polls |-> polls]

\* The gate of the CallTool handler: if (!this.providerReady) { if (name ===
\* 'add_memory') return handleQueuedAddMemory(args); ...wait... } switch (name)
Route(ready, name) ==
    IF ~ready
    THEN IF name = "add_memory" THEN "queue" ELSE "wait"
    ELSE "dispatch"

\* handleAddMemory's validation: !content || typeof content !== 'string' || empty
InvalidContent(content) == content = NoContent \/ content = <<>>

\* Mutant: no catch around the handler, a failed call is thrown to the transport.
DispatchPcThrows(name, content) ==
    IF (name = "add_memory" /\ InvalidContent(content)) \/ dbState # "open" THEN "thrown"
    ELSE "done"

\* switch (name): the handler's call of the provider and the state it leaves.
\* A provider whose db is not open throws 'Database not initialized'.
DispatchPc(name, content) ==
    IF name = "add_memory" /\ InvalidContent(content) THEN "error_invalid"
    ELSE IF dbState # "open" THEN "error_backend"
    ELSE "done"

\* const validImportance = Math.max(1, Math.min(10, Number(importance) || 5))
ValidImportance(importance) ==
    IF importance = 0 THEN 5
    ELSE IF importance < 1 THEN 1
    ELSE IF importance > 10 THEN 10
    ELSE importance

\* handleAddMemory's call: provider.addMemory({content: content.trim(), tags,
\* context, importance: validImportance, ...}), tags = [] and context = ""
\* being the defaults of a call that gives neither.
LiveMemory(content, importance) ==
    [content |-> content, tags |-> <<>>, context |-> <<>>,
     importance |-> ValidImportance(importance)]

DispatchTable(r, name, content, importance) ==
    IF name = "add_memory" /\ DispatchPc(name, content) = "done"
    THEN addMemory(memories, nextRowId, LiveMemory(content, importance), clock, "live", r, proc)
    ELSE memories

Dispatch(r, name, content, importance, polls) ==
    /\ (name = "add_memory" /\ DispatchPc(name, content) = "done") => Len(memories) < MaxMemories
    /\ reqs' = [reqs EXCEPT ![r] = Settled(name, DispatchPc(name, content), polls)]
    /\ memories' = DispatchTable(r, name, content, importance)
    /\ nextRowId' = IF memories' # memories THEN nextRowId + 1 ELSE nextRowId

\* A tool call reaches the handler.
CallTool(name, content, importance) ==
    /\ runPc \notin {"exited"}
    /\ nextReq <= MaxRequests
    /\ nextReq' = nextReq + 1
    /\ CASE Route(providerReady, name) = "queue" ->
              /\ reqs' = [reqs EXCEPT ![nextReq] =
                            [name |-> name, content |-> content, importance |-> importance,
                             pc |-> "appending", polls |-> 0]]
              /\ UNCHANGED tableVars
         [] Route(providerReady, name) = "wait" ->
              /\ reqs' = [reqs EXCEPT ![nextReq] =
                            [name |-> name, content |-> content, importance |-> importance,
                             pc |-> "polling", polls |-> 0]]
              /\ UNCHANGED tableVars
         [] OTHER -> Dispatch(nextReq, name, content, importance, 0)
    /\ UNCHANGED <<otherVars, gateVars, drainVars, fileVars>>

\* handleQueuedAddMemory: the awaited fs.appendFile completes, the call is acknowledged.
handleQueuedAddMemory(r) ==
    /\ reqs[r].pc = "appending"
    /\ queueFile' = AppendFile(queueFile, QueueItem(r, reqs[r].content, reqs[r].importance))
    /\ queueExists' = TRUE
    /\ reqs' = [reqs EXCEPT ![r] = Settled("add_memory", "queued", 0)]
    /\ UNCHANGED <<otherVars, gateVars, drainVars, tableVars, nextReq>>

\* Mutant: the check after the loop is missing, a wait that ran out goes on
\* to the handler.
PollOutcomeNoRecheck(ready, slept) ==
    IF ready \/ slept >= MaxWaitPolls THEN "dispatch" ELSE "sleep"

\* while (!this.providerReady && (Date.now() - startWait) < maxWait) await sleep(100)
\* The outcome of one wake-up after `slept` sleeps.
PollOutcome(ready, slept) ==
    IF ready THEN "dispatch"
    ELSE IF slept < MaxWaitPolls THEN "sleep"
    ELSE "error_notready"

PollWake(r) ==
    /\ reqs[r].pc = "polling"
    /\ LET slept == reqs[r].polls + 1
           out == PollOutcome(providerReady, slept)
       IN CASE out = "dispatch" ->
                 Dispatch(r, reqs[r].name, reqs[r].content, reqs[r].importance, slept)
            [] out = "sleep" ->
                 /\ reqs' = [reqs EXCEPT ![r].polls = slept]
                 /\ UNCHANGED tableVars
            [] OTHER ->
                 /\ reqs' = [reqs EXCEPT ![r] = Settled(reqs[r].name, "error_notready", slept)]
                 /\ UNCHANGED tableVars
    /\ UNCHANGED <<otherVars, gateVars, drainVars, fileVars, nextReq>>

\* ------------------------------------------------------------------- run()
\* provider.initialize() settles: the database is open and its tables created
\* (with the migration pass), or it failed. Under withTimeout it goes on
\* running after the 30 s timer has rejected.
providerInitialize(ok) ==
    /\ runPc \in {"initializing", "failed"}
    /\ dbState = "pending"
    /\ dbState' = IF ok THEN "open" ELSE "failed"
    /\ UNCHANGED <<otherVars, proc, runPc, providerReady, queueProcessing, drainVars, fileVars,
                   tableVars, reqVars>>

\* withTimeout(this.provider.initialize(), 30000) rejects: the timer fired
\* first, or initialize() itself rejected. run() goes to its catch block.
InitRejects(db) == db \in {"pending", "failed"}

runInitFails ==
    /\ runPc = "initializing"
    /\ InitRejects(dbState)
    /\ runPc' = "failed"
    /\ UNCHANGED <<otherVars, proc, dbState, providerReady, queueProcessing, drainVars, fileVars,
                   tableVars, reqVars>>

\* drainQueue's guard: if (this.queueProcessing) return;
DrainEnters(processing) == ~processing

\* Mutant: initialize() is not awaited, the gate opens while it is pending.
InitResolvedNotAwaited(db) == db \in {"open", "pending"}

\* await withTimeout(initialize) resolved: this.providerReady = true, then
\* drainQueue() runs up to its first await (fs.access).
InitResolved(db) == db = "open"

runProviderReady ==
    /\ runPc = "initializing"
    /\ InitResolved(dbState)
    /\ providerReady' = TRUE
    /\ runPc' = "draining"
    /\ IF DrainEnters(queueProcessing)
       THEN /\ queueProcessing' = TRUE
            /\ drainPc' = "access"
            /\ UNCHANGED <<drainLines, drainIdx, processedCount, drainOutcome>>
       ELSE /\ drainPc' = "done"
            /\ drainOutcome' = "skipped"
            /\ UNCHANGED <<queueProcessing, drainLines, drainIdx, processedCount>>
    /\ UNCHANGED <<otherVars, proc, dbState, fileVars, tableVars, reqVars>>

\* ------------------------------------------------------------ drainQueue()
\* Mutant: no finally block, the early returns leave the flag set.
DrainFinallyKeepsFlag == TRUE

\* The value of queueProcessing when drainQueue returns (its finally block).
DrainFinally == FALSE

\* const exists = await fs.access(queuePath)...; if (!exists) return;
drainAccess ==
    /\ drainPc = "access"
    /\ IF queueExists
       THEN /\ drainPc' = "read"
            /\ UNCHANGED <<queueProcessing, drainOutcome>>
       ELSE /\ drainPc' = "done"
            /\ drainOutcome' = "missing"
            /\ queueProcessing' = DrainFinally
    /\ UNCHANGED <<otherVars, proc, runPc, dbState, providerReady, drainLines, drainIdx, processedCount,
                   fileVars, tableVars, reqVars>>

\* const data = await fs.readFile(...); if (!data.trim()) return;
\* const lines = data.split(/\r?\n/).filter(Boolean);
drainRead ==
    /\ drainPc = "read"
    /\ IF queueFile = <<>>
       THEN /\ drainPc' = "done"
            /\ drainOutcome' = "empty"
            /\ queueProcessing' = DrainFinally
            /\ UNCHANGED <<drainLines, drainIdx, processedCount>>
       ELSE /\ drainPc' = "line"
            /\ drainLines' = queueFile
            /\ drainIdx' = 1
            /\ processedCount' = 0
            /\ UNCHANGED <<queueProcessing, drainOutcome>>
    /\ UNCHANGED <<otherVars, proc, runPc, dbState, providerReady, fileVars, tableVars, reqVars>>

\* One turn of the for loop: JSON.parse(line); if (req?.params?.name ===
\* 'add_memory') { await provider.addMemory(...); processedCount++ }, with the
\* catch that logs and goes on. TRUE when the line was applied.
LineApplies(line) ==
    /\ line.kind = "json"
    /\ line.name = "add_memory"
    /\ ~AddMemoryFails(line.content)
    /\ dbState = "open"

\* importance: Number(args.importance) || 5
DrainImportance(importance) == IF importance = 0 THEN 5 ELSE importance

\* drainQueue's call: provider.addMemory({content: args.content, tags:
\* Array.isArray(args.tags) ? args.tags : [], context: String(args.context || ''),
\* importance: Number(args.importance) || 5, ...})
DrainMemory(content, importance) ==
    [content |-> content, tags |-> <<>>, context |-> <<>>,
     importance |-> DrainImportance(importance)]

\* Mutant: the loop steps over every other line.
NextLineSkips(i) == i + 2

\* The index of the line the loop takes after line i.
NextLine(i) == i + 1

\* if (processedCount > 0) await fs.writeFile(queuePath, '')
DrainTruncates(count) == count > 0

drainLine ==
    /\ drainPc = "line"
    /\ drainIdx <= Len(drainLines)
    /\ LET line == drainLines[drainIdx]
           applied == LineApplies(line)
           count == IF applied THEN processedCount + 1 ELSE processedCount
           last == NextLine(drainIdx) > Len(drainLines)
       IN /\ applied => Len(memories) < MaxMemories
          /\ memories' = IF applied
                         THEN addMemory(memories, nextRowId,
                                        DrainMemory(line.content, line.importance),
                                        clock, "drain", line.id, proc)
                         ELSE memories
          /\ nextRowId' = IF applied THEN nextRowId + 1 ELSE nextRowId
          /\ processedCount' = count
          /\ drainIdx' = NextLine(drainIdx)
          /\ IF ~last
             THEN UNCHANGED <<drainPc, queueProcessing, drainOutcome>>
             ELSE IF DrainTruncates(count)
                  THEN /\ drainPc' = "truncate"
                       /\ UNCHANGED <<queueProcessing, drainOutcome>>
                  ELSE /\ drainPc' = "done"
                       /\ drainOutcome' = "completed"
                       /\ queueProcessing' = DrainFinally
    /\ UNCHANGED <<otherVars, proc, runPc, dbState, providerReady, drainLines, fileVars, reqVars>>

\* fs.writeFile(queuePath, '', 'utf8') empties the file.
WriteFileEmpty(file) == <<>>

drainTruncate ==
    /\ drainPc = "truncate"
    /\ queueFile' = WriteFileEmpty(queueFile)
    /\ drainPc' = "truncated"
    /\ UNCHANGED <<otherVars, gateVars, drainLines, drainIdx, processedCount, drainOutcome,
                   queueExists, tableVars, reqVars>>

\* The awaited writeFile has resolved: the finally block, and drainQueue returns.
drainReturn ==
    /\ drainPc = "truncated"
    /\ drainPc' = "done"
    /\ drainOutcome' = "completed"
    /\ queueProcessing' = DrainFinally
    /\ UNCHANGED <<otherVars, proc, runPc, dbState, providerReady, drainLines, drainIdx, processedCount,
                   fileVars, tableVars, reqVars>>

\* fs.readFile or fs.writeFile rejects: drainQueue has no catch, its finally
\* runs and the error reaches run()'s catch block.
drainIoError ==
    /\ drainPc \in {"read", "truncate"}
    /\ drainPc' = "done"
    /\ drainOutcome' = "error"
    /\ queueProcessing' = DrainFinally
    /\ runPc' = "failed"
    /\ UNCHANGED <<otherVars, proc, dbState, providerReady, drainLines, drainIdx, processedCount,
                   fileVars, tableVars, reqVars>>

\* drainQueue() has returned: setupHttpFallback(), server.connect(transport).
runConnect ==
    /\ runPc = "draining"
    /\ drainPc = "done"
    /\ runPc' = "running"
    /\ UNCHANGED <<otherVars, proc, dbState, providerReady, queueProcessing, drainVars, fileVars,
                   tableVars, reqVars>>

\* ---------------------------------------------------- shutdown and restart
\* Mutant: shutdown() closes the gate again.
ShutdownClosesGate(ready) == FALSE

\* The value shutdown() leaves in providerReady: it does not touch the field.
ShutdownReady(ready) == ready

\* The process ends: run()'s catch (shutdown(), process.exit(1)), SIGINT or
\* SIGTERM (shutdown(), process.exit(0)), or a kill. provider.close() closes
\* the database; the requests in flight and drainQueue's locals die with it.
shutdown ==
    /\ runPc # "exited"
    /\ runPc' = "exited"
    /\ dbState' = "closed"
    /\ providerReady' = ShutdownReady(providerReady)
    /\ reqs' = [r \in DOMAIN reqs |-> IF reqs[r].pc = "none" THEN reqs[r] ELSE GoneRequest]
    /\ drainPc' = "idle"
    /\ drainLines' = <<>>
    /\ drainIdx' = 0
    /\ processedCount' = 0
    /\ UNCHANGED <<otherVars, proc, queueProcessing, drainOutcome, fileVars, tableVars, nextReq>>

\* A new process on the same directory: new DeepMemoryServer(), run().
Start ==
    /\ runPc = "exited"
    /\ proc < MaxProcs
    /\ proc' = proc + 1
    /\ runPc' = "initializing"
    /\ dbState' = "pending"
    /\ providerReady' = FALSE
    /\ queueProcessing' = FALSE
    /\ drainOutcome' = "none"
    /\ UNCHANGED <<otherVars, drainPc, drainLines, drainIdx, processedCount, fileVars, tableVars, reqVars>>

\* ------------------------------------------------------------ specification
\* Rows the cluster_details table may hold before addClusterDetail is not taken.
MaxDetails == 2
\* The calls of MySQLProvider in progress at once, and the connections of
\* its pool (connectionLimit).
MaxOps == 2
PoolSize == 2

\* What a migration pass reports: whether the embedding service started, the
\* rows that failed, the rows written, the embedding column and the row ids
\* as the pass found them.
NoMigration == [service |-> FALSE, failed |-> {}, writes |-> {}, before |-> <<>>, rows |-> {}]

\* No call in this slot.
IdleOp == [kind |-> "none", pc |-> "idle", held |-> 0, arg |-> 0, left |-> 0,
           result |-> NoMigration]

\* The provider object of a server whose store is open: initialize() has
\* resolved and the tables exist.
NoLifecycle == [initPromise |-> "resolved", tables |-> TRUE, creating |-> FALSE]

\* No deleteCluster in progress.
\* The timestamp columns of the two cluster tables, both empty.
NoClusterTimes == [cluster |-> <<>>, detail |-> <<>>]

NoDeleteCluster == [pc |-> "idle", clusterId |-> 0, before |-> <<>>]

\* The tables besides memories and docs as createTables leaves them, behind
\* the current better-sqlite3 provider.
BackendInit ==
    /\ provider = "better-sqlite3"
    /\ clusters = {}
    /\ clusterDetails = {}
    /\ deleteClusterPc = NoDeleteCluster
    /\ opPromise = "none"
    /\ timer = "none"
    /\ callerOutcome = "none"
    /\ embedding = <<>>
    /\ poolOps = [o \in 1..MaxOps |-> IdleOp]
    /\ clusterTimes = NoClusterTimes
    /\ lifecycle = NoLifecycle
    /\ privateKey = 0
    /\ metadata = <<>>

\* queue.jsonl as the first process finds it: absent, or holding a line that
\* is not JSON.
InitialQueues == {<<FALSE, <<>> >>, <<TRUE, <<CorruptLine>> >>}

Init ==
    /\ proc = 1
    /\ runPc = "initializing"
    /\ dbState = "pending"
    /\ providerReady = FALSE
    /\ queueProcessing = FALSE
    /\ \E q \in InitialQueues : queueExists = q[1] /\ queueFile = q[2]
    /\ drainPc = "idle"
    /\ drainLines = <<>>
    /\ drainIdx = 0
    /\ processedCount = 0
    /\ drainOutcome = "none"
    /\ memories = <<>>
    /\ nextRowId = 1
    /\ reqs = [r \in 1..MaxRequests |-> NoRequest]
    /\ nextReq = 1
    /\ docs = <<>>
    /\ clock = 0
    /\ lastCall = NoCall
    /\ BackendInit

Next ==
    \/ \E a \in AddMemoryArgs : CallTool("add_memory", a.content, a.importance)
    \/ CallTool("load_all_memory", NoContent, 0)
    \/ \E r \in 1..MaxRequests : handleQueuedAddMemory(r)
    \/ \E r \in 1..MaxRequests : PollWake(r)
    \/ \E ok \in BOOLEAN : providerInitialize(ok)
    \/ runInitFails
    \/ runProviderReady
    \/ drainAccess
    \/ drainRead
    \/ drainLine
    \/ drainTruncate
    \/ drainReturn
    \/ drainIoError
    \/ runConnect
    \/ shutdown
    \/ Start

Spec == Init /\ [][Next]_vars

\* ============================================== the provider, called directly
\* An optional argument is the empty set when absent and {v} when given.
Given(opt) == opt # {}
\* A string option counts when it is given and not '' (JavaScript truthiness).
StrGiven(opt) == \E v \in opt : v # <<>>
\* An id is a number from 1; the option {0} stands for the empty string ''.
IdGiven(opt) == \E v \in opt : v # 0
\* options.tags && options.tags.length > 0
TagsGiven(opt) == \E v \in opt : Len(v) > 0

\* SQL LIKE compares ASCII letters without regard to case (the letters the
\* samples use are folded here).
Fold(c) == CASE c = "A" -> "a" [] c = "B" -> "b" [] OTHER -> c

\* One character of the text against one character of a LIKE pattern that
\* is not '%': '_' stands for any character.
LikeChar(c, p) == p = "_" \/ Fold(c) = Fold(p)

\* s LIKE p, for a pattern with any number of '%'.
RECURSIVE Like(_, _)
Like(s, p) ==
    IF p = <<>> THEN s = <<>>
    ELSE IF Head(p) = "%"
    THEN \E k \in 0..Len(s) : Like(SubSeq(s, k + 1, Len(s)), Tail(p))
    ELSE s # <<>> /\ LikeChar(Head(s), Head(p)) /\ Like(Tail(s), Tail(p))

\* SQL: s LIKE '%q%', q being bound as it came: its '%' and '_' are wildcards
\* of the pattern.  Without a '%' in q the pattern matches q at some offset.
Contains(s, q) ==
    IF \A j \in DOMAIN q : q[j] # "%"
    THEN \E i \in 0..(Len(s) - Len(q)) : \A j \in DOMAIN q : LikeChar(s[i + j], q[j])
    ELSE Like(s, <<"%">> \o q \o <<"%">>)

\* JSON.stringify of a tag list, as stored in the tags column.
JsonString(t) == <<"\"">> \o t \o <<"\"">>
RECURSIVE JsonItems(_)
JsonItems(tags) ==
    IF tags = <<>> THEN <<>>
    ELSE IF Len(tags) = 1 THEN JsonString(tags[1])
    ELSE JsonString(tags[1]) \o <<",">> \o JsonItems(Tail(tags))
JsonStringify(tags) == <<"[">> \o JsonItems(tags) \o <<"]">>

\* tags LIKE '%"tag"%' OR ... : one of the requested tags is in the column.
TagsLike(row, tags) ==
    \E k \in DOMAIN tags : Contains(JsonStringify(row.tags), JsonString(tags[k]))

\* Mutant: options.tags alone, so that an empty tag list counts as a filter.
MemoryHasFiltersAnyTags(o) ==
    \/ IdGiven(o.id)
    \/ Given(o.tags)
    \/ StrGiven(o.context)
    \/ StrGiven(o.query)
    \/ Given(o.importanceLessThan)
    \/ Given(o.before)

\* deleteMemories: const hasFilters = !!(options.id || (options.tags &&
\* options.tags.length > 0) || options.context || options.query ||
\* typeof options.importanceLessThan === 'number' || options.before)
MemoryHasFilters(o) ==
    \/ IdGiven(o.id)
    \/ TagsGiven(o.tags)
    \/ StrGiven(o.context)
    \/ StrGiven(o.query)
    \/ Given(o.importanceLessThan)
    \/ Given(o.before)

\* if (!hasFilters && !options.force) throw new Error('Refusing to delete all ...')
DeleteMemoriesRefuses(o) == ~MemoryHasFilters(o) /\ ~o.force

\* The WHERE clause deleteMemories builds: id = ? alone when an id is given,
\* otherwise 1=1 AND each filter that is set.
MemoryDeleted(row, o) ==
    IF IdGiven(o.id)
    THEN row.id \in o.id
    ELSE /\ StrGiven(o.query) => \E q \in o.query : Contains(row.content, q)
         /\ TagsGiven(o.tags) => \E t \in o.tags : TagsLike(row, t)
         /\ StrGiven(o.context) => \E c \in o.context : Contains(row.context, c)
         /\ \A n \in o.importanceLessThan : row.importance < n
         /\ \A b \in o.before : row.timestamp < b

\* DELETE FROM memories WHERE ...: the rows left.
deleteMemories(table, o) == SelectSeq(table, LAMBDA row : ~MemoryDeleted(row, o))

\* deleteDocs: const hasFilters = !!(options.id || (options.tags &&
\* options.tags.length > 0) || options.query || options.before)
DocHasFilters(o) ==
    \/ IdGiven(o.id)
    \/ TagsGiven(o.tags)
    \/ StrGiven(o.query)
    \/ Given(o.before)

DeleteDocsRefuses(o) == ~DocHasFilters(o) /\ ~o.force

DocDeleted(row, o) ==
    IF IdGiven(o.id)
    THEN row.id \in o.id
    ELSE /\ StrGiven(o.query) => \E q \in o.query : Contains(row.content, q)
         /\ TagsGiven(o.tags) => \E t \in o.tags : TagsLike(row, t)
         /\ \A b \in o.before : row.timestamp < b

deleteDocs(table, o) == SelectSeq(table, LAMBDA row : ~DocDeleted(row, o))

\* SQLiteProvider.addDoc: INSERT INTO docs, timestamp: new Date().
addDoc(table, rowId, doc, now) ==
    Append(table, [id |-> rowId,
                   url |-> IF "url" \in DOMAIN doc THEN doc.url ELSE <<>>,
                   title |-> IF "title" \in DOMAIN doc THEN doc.title ELSE <<>>,
                   content |-> doc.content, tags |-> doc.tags, timestamp |-> now,
                   lastFetched |-> now, accessCount |-> 0])

\* Rows inserted over a run, and the readings of the clock.
MaxRows == 2
MaxClock == 1

\* The memories and docs the calls add.
MemorySamples ==
    {[content |-> <<"a">>, tags |-> <<>>, context |-> <<>>, importance |-> 2],
     [content |-> <<"a", "b">>, tags |-> << <<"t">> >>, context |-> <<"c">>, importance |-> 9]}
DocSamples ==
    {[content |-> <<"a">>, tags |-> <<>>],
     [content |-> <<"b">>, tags |-> << <<"t">> >>]}

\* The options of the delete calls: every option absent, one option given
\* (empty or not), every string and list option given empty, or an id together
\* with a query; each with and without force.
AllDeleteOptions ==
    [id : {{}, {0}, {1}},
     tags : {{}, {<<>>}, {<< <<"t">> >>}},
     context : {{}, {<<>>}, {<<"c">>}},
     query : {{}, {<<>>}, {<<"b">>}},
     importanceLessThan : {{}, {0}, {5}},
     before : {{}, {1}},
     force : BOOLEAN]
OptionsGiven(o) ==
    Cardinality({f \in {"id", "tags", "context", "query", "importanceLessThan", "before"} :
                    o[f] # {}})
DeleteOptions ==
    {o \in AllDeleteOptions :
        \/ OptionsGiven(o) <= 1
        \/ /\ o.id = {0} /\ o.tags = {<<>>} /\ o.context = {<<>>} /\ o.query = {<<>>}
           /\ o.importanceLessThan = {} /\ o.before = {}
        \/ /\ o.id = {1} /\ o.query = {<<"b">>} /\ OptionsGiven(o) = 2}
DocDeleteOptions ==
    {[o EXCEPT !.context = {}, !.importanceLessThan = {}] : o \in DeleteOptions}

provAddMemory(m) ==
    /\ nextRowId <= MaxRows
    /\ memories' = addMemory(memories, nextRowId, m, clock, "live", 0, 0)
    /\ nextRowId' = nextRowId + 1
    /\ lastCall' = [op |-> "addMemory"]
    /\ UNCHANGED <<serverVars, backendVars, docs, clock>>

provAddDoc(d) ==
    /\ nextRowId <= MaxRows
    /\ docs' = addDoc(docs, nextRowId, d, clock)
    /\ nextRowId' = nextRowId + 1
    /\ lastCall' = [op |-> "addDoc"]
    /\ UNCHANGED <<serverVars, backendVars, memories, clock>>

\* deleteMemories(options): throws, or runs the DELETE and returns result.changes.
provDeleteMemories(o) ==
    /\ IF DeleteMemoriesRefuses(o)
       THEN /\ lastCall' = [op |-> "deleteMemories", options |-> o, outcome |-> "error",
                            changes |-> 0, before |-> memories]
            /\ UNCHANGED memories
       ELSE /\ memories' = deleteMemories(memories, o)
            /\ lastCall' = [op |-> "deleteMemories", options |-> o, outcome |-> "ok",
                            changes |-> Len(memories) - Len(memories'), before |-> memories]
    /\ UNCHANGED <<serverVars, backendVars, docs, clock, nextRowId>>

\* Mutant: the forced unfiltered deleteDocs empties the memories table too.
DeleteDocsFromBothTables(o) ==
    /\ ~DeleteDocsRefuses(o)
    /\ docs' = deleteDocs(docs, o)
    /\ memories' = IF OptionsGiven(o) = 0 THEN <<>> ELSE memories
    /\ lastCall' = [op |-> "deleteDocs", options |-> o, outcome |-> "ok",
                    changes |-> Len(docs) - Len(docs'), before |-> docs]
    /\ UNCHANGED <<serverVars, backendVars, clock, nextRowId>>

provDeleteDocs(o) ==
    /\ IF DeleteDocsRefuses(o)
       THEN /\ lastCall' = [op |-> "deleteDocs", options |-> o, outcome |-> "error",
                            changes |-> 0, before |-> docs]
            /\ UNCHANGED docs
       ELSE /\ docs' = deleteDocs(docs, o)
            /\ lastCall' = [op |-> "deleteDocs", options |-> o, outcome |-> "ok",
                            changes |-> Len(docs) - Len(docs'), before |-> docs]
    /\ UNCHANGED <<serverVars, backendVars, memories, clock, nextRowId>>

\* ------------------------------------------------------------------ updates
\* updateMemories: if (!id) { hasFilters = !!(filters.query || filters.context
\* || (filters.tags && filters.tags.length > 0) || typeof
\* filters.importanceLessThan === 'number' || filters.before) ... }
UpdateHasFilters(o) ==
    \/ StrGiven(o.query)
    \/ StrGiven(o.context)
    \/ TagsGiven(o.tags)
    \/ Given(o.importanceLessThan)
    \/ Given(o.before)

\* Mutant: force is not consulted, an unfiltered update is always refused.
UpdateRefusesDespiteForce(o) == ~IdGiven(o.id) /\ ~UpdateHasFilters(o)

\* if (!id) { if (!hasFilters && !force) throw new Error('Refusing to update all ...') }
UpdateMemoriesRefuses(o) == ~IdGiven(o.id) /\ ~UpdateHasFilters(o) /\ ~o.force

\* setParts: one entry per field of `update` that has the right type.
MemorySetParts(u) == {f \in {"content", "importance"} : Given(u[f])}

\* UPDATE memories SET ... WHERE 1=1 AND id = ?, or AND each filter that is set.
MemoryUpdated(row, o) ==
    IF IdGiven(o.id)
    THEN row.id \in o.id
    ELSE /\ StrGiven(o.query) => \E q \in o.query : Contains(row.content, q)
         /\ TagsGiven(o.tags) => \E t \in o.tags : TagsLike(row, t)
         /\ StrGiven(o.context) => \E c \in o.context : Contains(row.context, c)
         /\ \A n \in o.importanceLessThan : row.importance < n
         /\ \A b \in o.before : row.timestamp < b

\* SET content = ?, importance = ?: the row with the given fields replaced.
SetMemory(row, u) ==
    [row EXCEPT !.content = IF Given(u.content) THEN CHOOSE v \in u.content : TRUE ELSE @,
                !.importance = IF Given(u.importance) THEN CHOOSE v \in u.importance : TRUE ELSE @]

updateMemories(table, o, u) ==
    [i \in DOMAIN table |-> IF MemoryUpdated(table[i], o) THEN SetMemory(table[i], u) ELSE table[i]]

\* updateDocs: hasFilters = !!(filters.query || (filters.tags &&
\* filters.tags.length > 0) || filters.before)
UpdateDocsRefuses(o) ==
    /\ ~IdGiven(o.id)
    /\ ~(StrGiven(o.query) \/ TagsGiven(o.tags) \/ Given(o.before))
    /\ ~o.force

\* docs have content, title, tags and metadata to set, no importance.
DocSetParts(u) == {f \in {"content"} : Given(u[f])}

DocUpdated(row, o) ==
    IF IdGiven(o.id)
    THEN row.id \in o.id
    ELSE /\ StrGiven(o.query) => \E q \in o.query : Contains(row.content, q)
         /\ TagsGiven(o.tags) => \E t \in o.tags : TagsLike(row, t)
         /\ \A b \in o.before : row.timestamp < b

SetDoc(row, u) ==
    [row EXCEPT !.content = IF Given(u.content) THEN CHOOSE v \in u.content : TRUE ELSE @]

updateDocs(table, o, u) ==
    [i \in DOMAIN table |-> IF DocUpdated(table[i], o) THEN SetDoc(table[i], u) ELSE table[i]]

\* update_memory / update_doc calls made over a run.
MaxUpdates == 1

\* The `update` objects of the calls: a new content, a new importance (which
\* a doc does not have), or no usable field.
UpdateSamples ==
    {[content |-> {<<"z">>}, importance |-> {}],
     [content |-> {}, importance |-> {7}],
     [content |-> {}, importance |-> {}]}

\* updateMemories(options): throws on an unfiltered call without force and
\* on an update without fields, otherwise runs the UPDATE and returns
\* result.changes, the number of rows the WHERE clause matched.
provUpdateMemories(o, u) ==
    /\ nextReq <= MaxUpdates
    /\ nextReq' = nextReq + 1
    /\ IF UpdateMemoriesRefuses(o) \/ MemorySetParts(u) = {}
       THEN /\ lastCall' = [op |-> "updateMemories", options |-> o, update |-> u,
                            outcome |-> "error", changes |-> 0, before |-> memories]
            /\ UNCHANGED memories
       ELSE /\ memories' = updateMemories(memories, o, u)
            /\ lastCall' = [op |-> "updateMemories", options |-> o, update |-> u,
                            outcome |-> "ok",
                            changes |-> Cardinality({i \in DOMAIN memories :
                                                        MemoryUpdated(memories[i], o)}),
                            before |-> memories]
    /\ UNCHANGED <<gateVars, drainVars, fileVars, reqs, backendVars, docs, clock, nextRowId>>

provUpdateDocs(o, u) ==
    /\ nextReq <= MaxUpdates
    /\ nextReq' = nextReq + 1
    /\ IF UpdateDocsRefuses(o) \/ DocSetParts(u) = {}
       THEN /\ lastCall' = [op |-> "updateDocs", options |-> o, update |-> u,
                            outcome |-> "error", changes |-> 0, before |-> docs]
            /\ UNCHANGED docs
       ELSE /\ docs' = updateDocs(docs, o, u)
            /\ lastCall' = [op |-> "updateDocs", options |-> o, update |-> u,
                            outcome |-> "ok",
                            changes |-> Cardinality({i \in DOMAIN docs :
                                                        DocUpdated(docs[i], o)}),
                            before |-> docs]
    /\ UNCHANGED <<gateVars, drainVars, fileVars, reqs, backendVars, memories, clock, nextRowId>>

\* Time passes between two calls.
Tick ==
    /\ clock < MaxClock
    /\ clock' = clock + 1
    /\ UNCHANGED <<serverVars, backendVars, tableVars, docs, lastCall>>

\* The provider after initialize(), its tables empty, behind a running server.
ProviderInit ==
    /\ proc = 1
    /\ runPc = "running"
    /\ dbState = "open"
    /\ providerReady = TRUE
    /\ queueProcessing = FALSE
    /\ queueExists = FALSE
    /\ queueFile = <<>>
    /\ drainPc = "done"
    /\ drainLines = <<>>
    /\ drainIdx = 0
    /\ processedCount = 0
    /\ drainOutcome = "missing"
    /\ memories = <<>>
    /\ nextRowId = 1
    /\ reqs = [r \in 1..MaxRequests |-> NoRequest]
    /\ nextReq = 1
    /\ docs = <<>>
    /\ clock = 0
    /\ lastCall = NoCall
    /\ BackendInit

ProviderNext ==
    \/ \E m \in MemorySamples : provAddMemory(m)
    \/ \E d \in DocSamples : provAddDoc(d)
    \/ \E o \in DeleteOptions : provDeleteMemories(o)
    \/ \E o \in DocDeleteOptions : provDeleteDocs(o)
    \/ Tick

ProviderSpec == ProviderInit /\ [][ProviderNext]_vars

\* The options of the update calls: those of the delete calls, force being
\* tried on the calls without a filter and on one call with a filter.
UpdateOptions ==
    {o \in DeleteOptions : o.force => (~MemoryHasFilters(o) \/ o.query = {<<"b">>})}
DocUpdateOptions ==
    {[o EXCEPT !.context = {}, !.importanceLessThan = {}] : o \in UpdateOptions}

UpdateNext ==
    \/ \E m \in MemorySamples : provAddMemory(m)
    \/ \E d \in DocSamples : provAddDoc(d)
    \/ \E o \in UpdateOptions, u \in UpdateSamples : provUpdateMemories(o, u)
    \/ \E o \in DocUpdateOptions, u \in UpdateSamples : provUpdateDocs(o, u)

UpdateSpec == ProviderInit /\ [][UpdateNext]_vars

\* ========================================================== cluster deletion
\* Ids drawn from randomUUID() over a run of the cluster operations.
MaxIds == 3

\* this.db.pragma('foreign_keys = ON') is issued by the better-sqlite3
\* provider only; the sqlite3 provider opens the database without it, and
\* SQLite does not enforce foreign keys unless the connection asks for it.
ForeignKeys(binding) == binding = "better-sqlite3"

\* UPDATE memories SET clusterId = NULL WHERE clusterId = ?
DetachMemories(table, c) ==
    [i \in DOMAIN table |->
        IF table[i].clusterId = c THEN [table[i] EXCEPT !.clusterId = 0] ELSE table[i]]

\* DELETE FROM details_clusters WHERE id = ?
DeleteClusterRow(rows, c) == rows \ {c}

\* FOREIGN KEY (clusterId) REFERENCES details_clusters(id) ON DELETE CASCADE
\* on cluster_details: acts only when foreign keys are enforced.
CascadeDetails(details, c, binding) ==
    IF ForeignKeys(binding) THEN {d \in details : d.clusterId # c} ELSE details

\* Mutant: the link is stored on a copy of the row.
LinkMemoryCopies(table, memoryId, c) ==
    table \o [i \in 1..Cardinality({k \in DOMAIN table : table[k].id = memoryId}) |->
                 [(CHOOSE r \in {table[k] : k \in DOMAIN table} : r.id = memoryId)
                     EXCEPT !.clusterId = c]]

\* UPDATE memories SET clusterId = ? WHERE id = ?
LinkMemory(table, memoryId, c) ==
    [i \in DOMAIN table |->
        IF table[i].id = memoryId THEN [table[i] EXCEPT !.clusterId = c] ELSE table[i]]

\* FOREIGN KEY (clusterId) REFERENCES details_clusters(id) on memories: the
\* statement fails when the cluster does not exist and foreign keys are enforced.
LinkRejected(memoryId, c, binding) ==
    /\ ForeignKeys(binding)
    /\ c \notin clusters
    /\ \E i \in DOMAIN memories : memories[i].id = memoryId

\* createCluster: INSERT INTO details_clusters, then addClusterDetail for
\* each detail of the options.
\* The row of key k written or overwritten with v.
SetRow(f, k, v) == [i \in DOMAIN f \cup {k} |-> IF i = k THEN v ELSE f[i]]

\* randomUUID() for a cluster detail: an id no row of cluster_details has.
DetailId(t) ==
    IF DOMAIN t.detail = {} THEN 1
    ELSE 1 + CHOOSE m \in DOMAIN t.detail : \A k \in DOMAIN t.detail : k <= m

\* INSERT INTO details_clusters (..., createdAt, updatedAt, ...).
InsertCluster(t, id, now) == [t EXCEPT !.cluster = SetRow(@, id, now)]

\* INSERT INTO cluster_details (id, clusterId, ..., createdAt, updatedAt).
InsertDetail(t, id, c, now) ==
    [t EXCEPT !.detail = SetRow(@, id, [clusterId |-> c, createdAt |-> now, updatedAt |-> now])]

\* updateClusterTimestamp: UPDATE details_clusters SET updatedAt = ? WHERE
\* id = ?; an error of the statement is logged and not passed on.
updateClusterTimestamp(t, c, now, ok) ==
    IF ok /\ c \in DOMAIN t.cluster THEN [t EXCEPT !.cluster[c] = now] ELSE t

\* The timestamp columns after DELETE FROM details_clusters WHERE id = c.
DeleteClusterTimes(t, c, binding) ==
    [cluster |-> [i \in DOMAIN t.cluster \ {c} |-> t.cluster[i]],
     detail |-> IF ForeignKeys(binding)
                THEN [i \in {k \in DOMAIN t.detail : t.detail[k].clusterId # c} |-> t.detail[i]]
                ELSE t.detail]

createCluster(withDetail) ==
    /\ nextRowId <= MaxIds
    /\ clusters' = clusters \cup {nextRowId}
    /\ clusterDetails' = IF withDetail
                         THEN clusterDetails \cup {[clusterId |-> nextRowId, key |-> <<"k">>]}
                         ELSE clusterDetails
    /\ nextRowId' = nextRowId + 1
    /\ clusterTimes' =
           LET t == InsertCluster(clusterTimes, nextRowId, clock)
           IN IF withDetail
              THEN updateClusterTimestamp(InsertDetail(t, DetailId(t), nextRowId, clock),
                                          nextRowId, clock, TRUE)
              ELSE t
    /\ lastCall' = [op |-> "createCluster"]
    /\ UNCHANGED <<serverVars, timeoutVars, memories, docs, clock, provider,
                 deleteClusterPc, embedding, poolOps, cryptoVars, lifecycle>>

\* addMemory with the clusterId of an existing cluster, or without one.
clusterAddMemory(c) ==
    /\ nextRowId <= MaxIds
    /\ Len(memories) < MaxRows
    /\ memories' = addMemory(memories, nextRowId,
                             [content |-> <<"a">>, tags |-> <<>>, context |-> <<>>,
                              importance |-> 2, clusterId |-> c],
                             clock, "live", 0, 0)
    /\ nextRowId' = nextRowId + 1
    /\ lastCall' = [op |-> "addMemory"]
    /\ UNCHANGED <<serverVars, backendVars, docs, clock>>

\* result.changes of an UPDATE ... WHERE id = ?: the rows the WHERE clause
\* selects, whether or not the value written differs from the one stored.
RowsChanged(table, memoryId) == Cardinality({i \in DOMAIN table : table[i].id = memoryId})

\* handleLinkMemoryToCluster and handleUnlinkMemoryFromCluster: the text of
\* the response for the boolean the provider returned.
LinkText(ok) == IF ok THEN "Memory linked to cluster" ELSE "Memory or cluster not found"
UnlinkText(ok) == IF ok THEN "Memory unlinked from cluster" ELSE "Memory not found or not linked"

\* linkMemoryToCluster(memoryId, clusterId): returns result.changes > 0.
linkMemoryToCluster(memoryId, c) ==
    /\ IF LinkRejected(memoryId, c, provider)
       THEN /\ lastCall' = [op |-> "linkMemoryToCluster", outcome |-> "error",
                            memoryId |-> memoryId, clusterId |-> c, before |-> memories,
                            clusters |-> clusters, details |-> clusterDetails,
                            text |-> "FOREIGN KEY constraint failed"]
            /\ UNCHANGED memories
       ELSE /\ memories' = LinkMemory(memories, memoryId, c)
            /\ lastCall' = [op |-> "linkMemoryToCluster", outcome |-> "ok",
                            memoryId |-> memoryId, clusterId |-> c, before |-> memories,
                            clusters |-> clusters, details |-> clusterDetails,
                            text |-> LinkText(RowsChanged(memories, memoryId) > 0)]
    /\ UNCHANGED <<serverVars, backendVars, docs, clock, nextRowId>>

\* unlinkMemoryFromCluster(memoryId): UPDATE memories SET clusterId = NULL
\* WHERE id = ?; returns result.changes > 0.
unlinkMemoryFromCluster(memoryId) ==
    /\ memories' = LinkMemory(memories, memoryId, 0)
    /\ lastCall' = [op |-> "unlinkMemoryFromCluster", outcome |-> "ok",
                    memoryId |-> memoryId, clusterId |-> 0, before |-> memories,
                    clusters |-> clusters, details |-> clusterDetails,
                    text |-> UnlinkText(RowsChanged(memories, memoryId) > 0)]
    /\ UNCHANGED <<serverVars, backendVars, docs, clock, nextRowId>>

\* deleteCluster of the better-sqlite3 provider: both statements inside
\* this.db.transaction(...); a failure of either rolls both back.
deleteCluster(c, ok) ==
    /\ provider = "better-sqlite3"
    /\ IF ok
       THEN /\ memories' = DetachMemories(memories, c)
            /\ clusters' = DeleteClusterRow(clusters, c)
            /\ clusterDetails' = CascadeDetails(clusterDetails, c, provider)
            /\ clusterTimes' = DeleteClusterTimes(clusterTimes, c, provider)
            /\ lastCall' = [op |-> "deleteCluster", clusterId |-> c, outcome |-> "ok",
                            changes |-> Cardinality(clusters \cap {c}), before |-> memories]
       ELSE /\ lastCall' = [op |-> "deleteCluster", clusterId |-> c, outcome |-> "error",
                            changes |-> 0, before |-> memories]
            /\ UNCHANGED <<memories, clusters, clusterDetails, clusterTimes, cryptoVars, lifecycle>>
    /\ UNCHANGED <<serverVars, timeoutVars, docs, clock, nextRowId, provider,
                 deleteClusterPc, embedding, poolOps, cryptoVars, lifecycle>>

\* deleteCluster of the sqlite3 provider, first statement: db.run(UPDATE
\* memories ...); on error the promise is rejected.
sqlite3DeleteClusterUpdate(c, ok) ==
    /\ provider = "sqlite3"
    /\ deleteClusterPc.pc = "idle"
    /\ IF ok
       THEN /\ memories' = DetachMemories(memories, c)
            /\ deleteClusterPc' = [pc |-> "updated", clusterId |-> c, before |-> memories]
            /\ lastCall' = [op |-> "deleteCluster", clusterId |-> c, outcome |-> "pending",
                            changes |-> 0, before |-> memories]
       ELSE /\ lastCall' = [op |-> "deleteCluster", clusterId |-> c, outcome |-> "error",
                            changes |-> 0, before |-> memories]
            /\ UNCHANGED <<memories, deleteClusterPc>>
    /\ UNCHANGED <<serverVars, timeoutVars, docs, clock, nextRowId, provider, clusters,
                 clusterDetails, restVars>>

\* deleteCluster of the sqlite3 provider, second statement, issued from the
\* callback of the first: db.run(DELETE FROM details_clusters ...).
sqlite3DeleteClusterDelete(ok) ==
    /\ provider = "sqlite3"
    /\ deleteClusterPc.pc = "updated"
    /\ LET c == deleteClusterPc.clusterId
       IN IF ok
          THEN /\ clusters' = DeleteClusterRow(clusters, c)
               /\ clusterDetails' = CascadeDetails(clusterDetails, c, provider)
               /\ clusterTimes' = DeleteClusterTimes(clusterTimes, c, provider)
               /\ lastCall' = [op |-> "deleteCluster", clusterId |-> c, outcome |-> "ok",
                               changes |-> Cardinality(clusters \cap {c}),
                               before |-> deleteClusterPc.before]
          ELSE /\ lastCall' = [op |-> "deleteCluster", clusterId |-> c, outcome |-> "error",
                               changes |-> 0, before |-> deleteClusterPc.before]
               /\ UNCHANGED <<clusters, clusterDetails, clusterTimes, cryptoVars, lifecycle>>
    /\ deleteClusterPc' = NoDeleteCluster
    /\ UNCHANGED <<serverVars, timeoutVars, memories, docs, clock, nextRowId, provider,
                 embedding, poolOps, cryptoVars, lifecycle>>

\* Either provider after initialize(), its tables empty.
ClusterInit ==
    /\ proc = 1
    /\ runPc = "running"
    /\ dbState = "open"
    /\ providerReady = TRUE
    /\ queueProcessing = FALSE
    /\ queueExists = FALSE
    /\ queueFile = <<>>
    /\ drainPc = "done"
    /\ drainLines = <<>>
    /\ drainIdx = 0
    /\ processedCount = 0
    /\ drainOutcome = "missing"
    /\ memories = <<>>
    /\ nextRowId = 1
    /\ reqs = [r \in 1..MaxRequests |-> NoRequest]
    /\ nextReq = 1
    /\ docs = <<>>
    /\ clock = 0
    /\ lastCall = NoCall
    /\ provider \in {"better-sqlite3", "sqlite3"}
    /\ clusters = {}
    /\ clusterDetails = {}
    /\ deleteClusterPc = NoDeleteCluster
    /\ opPromise = "none"
    /\ timer = "none"
    /\ callerOutcome = "none"
    /\ embedding = <<>>
    /\ poolOps = [o \in 1..MaxOps |-> IdleOp]
    /\ clusterTimes = NoClusterTimes
    /\ lifecycle = NoLifecycle
    /\ privateKey = 0
    /\ metadata = <<>>

ClusterNext ==
    \/ \E d \in BOOLEAN : createCluster(d)
    \/ \E c \in clusters \cup {0} : clusterAddMemory(c)
    \/ \E m \in 1..MaxIds, c \in 1..MaxIds : linkMemoryToCluster(m, c)
    \/ \E m \in 1..MaxIds : unlinkMemoryFromCluster(m)
    \/ \E c \in clusters, ok \in BOOLEAN : deleteCluster(c, ok)
    \/ \E c \in clusters, ok \in BOOLEAN : sqlite3DeleteClusterUpdate(c, ok)
    \/ \E ok \in BOOLEAN : sqlite3DeleteClusterDelete(ok)

ClusterSpec == ClusterInit /\ [][ClusterNext]_vars

\* ============================================================== withTimeout
\* better-sqlite3 runs a statement inside the call: the async method has no
\* await before stmt.run, so its promise is settled when withTimeout gets it.
\* mysql2 sends the statement and settles when the server has answered.
Synchronous(binding) == binding = "better-sqlite3"

\* Mutant: the promise of withTimeout takes every settlement, not the first.
SettleOverrides(outcome, with) == with

\* resolve / reject of the promise returned by withTimeout: the first
\* settlement stands, a later one has no effect.
Settle(outcome, with) == IF outcome = "none" THEN with ELSE outcome

\* clearTimeout(timer): stops a timer that has not fired.
ClearTimeout(t) == IF t = "armed" THEN "cleared" ELSE t

\* p has settled and no new call may start before.
CallOver == opPromise \in {"none", "fulfilled", "rejected"}

\* handleAddMemory: await this.withTimeout(this.provider.addMemory({...})).
\* The provider method is called first, then withTimeout arms its timer and
\* attaches the callbacks to p.
withTimeoutAddMemory(m, ok) ==
    /\ nextReq <= MaxRequests
    /\ CallOver
    /\ nextReq' = nextReq + 1
    /\ IF Synchronous(provider)
       THEN /\ memories' = IF ok THEN addMemory(memories, nextRowId, m, clock, "live", nextReq, proc)
                           ELSE memories
            /\ nextRowId' = IF ok THEN nextRowId + 1 ELSE nextRowId
            /\ opPromise' = IF ok THEN "fulfilled" ELSE "rejected"
            /\ timer' = ClearTimeout("armed")
            /\ callerOutcome' = Settle("none", IF ok THEN "result" ELSE "error")
       ELSE /\ opPromise' = "pending"
            /\ timer' = "armed"
            /\ callerOutcome' = "none"
            /\ UNCHANGED tableVars
    /\ lastCall' = [op |-> "addMemory", memory |-> m]
    /\ UNCHANGED <<gateVars, drainVars, fileVars, reqs, docs, clock, clusterVars, restVars>>

\* The backend executes the INSERT of the pending call; nothing has told it
\* whether the timer fired.
backendCommit ==
    /\ opPromise = "pending"
    /\ memories' = addMemory(memories, nextRowId, lastCall.memory, clock, "live", nextReq - 1, proc)
    /\ nextRowId' = nextRowId + 1
    /\ opPromise' = "committed"
    /\ UNCHANGED <<serverVars, docs, clock, lastCall, clusterVars, timer, callerOutcome, restVars>>

\* p settles: fulfilled once the write is committed, rejected if the call
\* failed before. p.then(res => { clearTimeout(timer); resolve(res) })
\* .catch(err => { clearTimeout(timer); reject(err) })
promiseSettles ==
    /\ opPromise \in {"pending", "committed"}
    /\ opPromise' = IF opPromise = "committed" THEN "fulfilled" ELSE "rejected"
    /\ timer' = ClearTimeout(timer)
    /\ callerOutcome' = Settle(callerOutcome, IF opPromise = "committed" THEN "result" ELSE "error")
    /\ UNCHANGED <<serverVars, tableVars, docs, clock, lastCall, clusterVars, restVars>>

\* setTimeout(() => reject(new Error('Operation timed out ...')), timeout)
timerFires ==
    /\ timer = "armed"
    /\ timer' = "fired"
    /\ callerOutcome' = Settle(callerOutcome, "timeout")
    /\ UNCHANGED <<serverVars, tableVars, docs, clock, lastCall, clusterVars, opPromise, restVars>>

\* A ready server in front of the better-sqlite3 or the mysql2 provider.
TimeoutInit ==
    /\ proc = 1
    /\ runPc = "running"
    /\ dbState = "open"
    /\ providerReady = TRUE
    /\ queueProcessing = FALSE
    /\ queueExists = FALSE
    /\ queueFile = <<>>
    /\ drainPc = "done"
    /\ drainLines = <<>>
    /\ drainIdx = 0
    /\ processedCount = 0
    /\ drainOutcome = "missing"
    /\ memories = <<>>
    /\ nextRowId = 1
    /\ reqs = [r \in 1..MaxRequests |-> NoRequest]
    /\ nextReq = 1
    /\ docs = <<>>
    /\ clock = 0
    /\ lastCall = NoCall
    /\ provider \in {"better-sqlite3", "mysql2"}
    /\ clusters = {}
    /\ clusterDetails = {}
    /\ deleteClusterPc = NoDeleteCluster
    /\ opPromise = "none"
    /\ timer = "none"
    /\ callerOutcome = "none"
    /\ embedding = <<>>
    /\ poolOps = [o \in 1..MaxOps |-> IdleOp]
    /\ clusterTimes = NoClusterTimes
    /\ lifecycle = NoLifecycle
    /\ privateKey = 0
    /\ metadata = <<>>

TimeoutNext ==
    \/ \E m \in MemorySamples, ok \in BOOLEAN : withTimeoutAddMemory(m, ok)
    \/ backendCommit
    \/ promiseSettles
    \/ timerFires
    \/ Tick

TimeoutSpec == TimeoutInit /\ [][TimeoutNext]_vars

\* ==================================================================== search
\* The searches a row is returned by over a run.
MaxAccessCount == 2

\* Docs with a url and a title, and docs without.
SearchDocSamples ==
    {[content |-> <<"a">>, tags |-> << <<"t">> >>, url |-> <<"u">>, title |-> <<"x">>],
     [content |-> <<"b">>, tags |-> << <<"t">>, <<"s">> >>]}

\* No option given.
NoDocSearchOptions == [query |-> {}, tags |-> {}, limit |-> {}, sortOrder |-> {}]
NoSearchOptions ==
    [query |-> {}, tags |-> {}, contextFilter |-> {}, importanceThreshold |-> {},
     limit |-> {}, sortBy |-> {}, sortOrder |-> {}]

\* The options of searchDocs: none, or one of them given: a query found in a
\* content or in a url, one tag or two, a limit of one row, ascending order.
DocSearchOptions ==
    {NoDocSearchOptions,
     [NoDocSearchOptions EXCEPT !.query = {<<"a">>}],
     [NoDocSearchOptions EXCEPT !.query = {<<"u">>}],
     [NoDocSearchOptions EXCEPT !.tags = {<< <<"s">> >>}],
     [NoDocSearchOptions EXCEPT !.tags = {<< <<"s">>, <<"t">> >>}],
     [NoDocSearchOptions EXCEPT !.limit = {1}],
     [NoDocSearchOptions EXCEPT !.sortOrder = {"asc"}]}

\* The options of searchMemories: none, or one of them given.
SearchOptions ==
    {NoSearchOptions,
     [NoSearchOptions EXCEPT !.query = {<<"b">>}],
     [NoSearchOptions EXCEPT !.tags = {<< <<"t">> >>}],
     [NoSearchOptions EXCEPT !.importanceThreshold = {5}]}

\* ORDER BY col ASC|DESC: every order of the rows the statement may return,
\* rows with equal keys coming in any order.
RECURSIVE OrderBy(_, _, _, _)
OrderBy(table, S, col, order) ==
    IF S = {} THEN {<<>>}
    ELSE UNION { { <<table[i]>> \o rest : rest \in OrderBy(table, S \ {i}, col, order) } :
                 i \in { k \in S : \A m \in S :
                            IF order = "ASC" THEN table[k][col] <= table[m][col]
                            ELSE table[k][col] >= table[m][col] } }

\* LIMIT n
Limit(rows, n) == SubSeq(rows, 1, IF n < Len(rows) THEN n ELSE Len(rows))

\* options.sortOrder === 'asc' ? 'ASC' : 'DESC'
SqliteSortOrder(o) == IF o.sortOrder = {"asc"} THEN "ASC" ELSE "DESC"

\* SQLiteProvider.searchDocs: AND (content LIKE ? OR title LIKE ?), AND (tags
\* LIKE ? OR tags LIKE ? ...).
SqliteDocMatches(row, o) ==
    /\ StrGiven(o.query) =>
           \E q \in o.query : Contains(row.content, q) \/ Contains(row.title, q)
    /\ TagsGiven(o.tags) => \E t \in o.tags : TagsLike(row, t)

\* The rows SQLiteProvider.searchDocs may return: ORDER BY timestamp, and a
\* LIMIT only when options.limit is truthy.
SqliteSearchDocsRows(table, o) ==
    { IF \E n \in o.limit : n # 0 THEN Limit(rows, CHOOSE n \in o.limit : TRUE) ELSE rows :
      rows \in OrderBy(table, {i \in DOMAIN table : SqliteDocMatches(table[i], o)},
                       "timestamp", SqliteSortOrder(o)) }

\* return { entries, totalFound: entries.length, searchTime }
SqliteSearchResult(rows) == [entries |-> rows, totalFound |-> Len(rows), searchTime |-> 0]

\* JSON_CONTAINS(tags, '"t"'): the tag is an element of the stored array.
JsonContains(row, t) == \E k \in DOMAIN row.tags : row.tags[k] = t

\* MySQLProvider.searchDocs: (title LIKE ? OR content LIKE ? OR url LIKE ?),
\* and one JSON_CONTAINS per requested tag, joined by AND.
MysqlDocMatches(row, o) ==
    /\ StrGiven(o.query) =>
           \E q \in o.query :
               Contains(row.title, q) \/ Contains(row.content, q) \/ Contains(row.url, q)
    /\ TagsGiven(o.tags) =>
           \E tags \in o.tags : \A k \in DOMAIN tags : JsonContains(row, tags[k])

\* (options as any).order === 'asc' ? 'ASC' : 'DESC': the option read is
\* `order`, which DocSearchOptions does not have.
MysqlSortOrder(o) == IF "order" \in DOMAIN o /\ o.order = {"asc"} THEN "ASC" ELSE "DESC"

\* typeof options.limit === 'number' ? options.limit : 20
MysqlLimit(o) == IF Given(o.limit) THEN CHOOSE n \in o.limit : TRUE ELSE 20

\* The rows MySQLProvider.searchDocs may return: ORDER BY timestamp, LIMIT ?
\* OFFSET 0.
MysqlSearchDocsRows(table, o) ==
    { Limit(rows, MysqlLimit(o)) :
      rows \in OrderBy(table, {i \in DOMAIN table : MysqlDocMatches(table[i], o)},
                       "timestamp", MysqlSortOrder(o)) }

\* return { results, total }: total is the COUNT(*) of the matching rows.
MysqlSearchResult(table, o, rows) ==
    [results |-> rows, total |-> Cardinality({i \in DOMAIN table : MysqlDocMatches(table[i], o)})]

\* UPDATE docs SET accessCount = accessCount + 1, lastFetched = ? WHERE id IN (...)
updateDocsAccessCount(table, ids, now) ==
    [i \in DOMAIN table |->
        IF table[i].id \in ids
        THEN [table[i] EXCEPT !.accessCount = @ + 1, !.lastFetched = now]
        ELSE table[i]]

\* Mutant: SET accessCount = accessCount - 1.
UpdateAccessCountLowers(table, ids, now) ==
    [i \in DOMAIN table |->
        IF table[i].id \in ids
        THEN [table[i] EXCEPT !.accessCount = @ - 1, !.lastAccessed = now]
        ELSE table[i]]

\* UPDATE memories SET accessCount = accessCount + 1, lastAccessed = ? WHERE id IN (...)
updateAccessCount(table, ids, now) ==
    [i \in DOMAIN table |->
        IF table[i].id \in ids
        THEN [table[i] EXCEPT !.accessCount = @ + 1, !.lastAccessed = now]
        ELSE table[i]]

Ids(rows) == {rows[i].id : i \in DOMAIN rows}

\* searchDocs(options) of the provider in use.  SQLiteProvider runs the UPDATE
\* of the access counts before it returns (better-sqlite3 is synchronous) and
\* catches its error, when there is one (updateOk false); MySQLProvider
\* returns after its two SELECTs.
searchDocs(o, updateOk) ==
    /\ \A i \in DOMAIN docs : docs[i].accessCount < MaxAccessCount
    /\ IF provider = "mysql2"
       THEN \E rows \in MysqlSearchDocsRows(docs, o) :
               /\ lastCall' = [op |-> "searchDocs", options |-> o, outcome |-> "ok",
                               result |-> MysqlSearchResult(docs, o, rows),
                               returned |-> Ids(rows), before |-> docs, now |-> clock,
                               updateFailed |-> FALSE]
               /\ UNCHANGED docs
       ELSE \E rows \in SqliteSearchDocsRows(docs, o) :
               /\ lastCall' = [op |-> "searchDocs", options |-> o, outcome |-> "ok",
                               result |-> SqliteSearchResult(rows),
                               returned |-> Ids(rows), before |-> docs, now |-> clock,
                               updateFailed |-> ~updateOk /\ Len(rows) > 0]
               /\ docs' = IF updateOk /\ Len(rows) > 0
                          THEN updateDocsAccessCount(docs, Ids(rows), clock)
                          ELSE docs
    /\ UNCHANGED <<serverVars, backendVars, tableVars, clock>>

\* SQLiteProvider.searchMemories: AND content LIKE ?, AND (tags LIKE ? OR ...),
\* AND context LIKE ?, AND importance >= ?.
MemoryMatches(row, o) ==
    /\ StrGiven(o.query) => \E q \in o.query : Contains(row.content, q)
    /\ TagsGiven(o.tags) => \E t \in o.tags : TagsLike(row, t)
    /\ StrGiven(o.contextFilter) => \E c \in o.contextFilter : Contains(row.context, c)
    /\ (\E n \in o.importanceThreshold : n # 0) =>
           \E n \in o.importanceThreshold : row.importance >= n

\* const sortBy = options.sortBy || 'timestamp'
SortBy(o) == IF o.sortBy = {} THEN "timestamp" ELSE CHOOSE col \in o.sortBy : TRUE

\* The rows the SELECT of searchMemories may return: ORDER BY sortBy
\* sortOrder, and a LIMIT only when options.limit is truthy.
SearchMemoriesRows(table, o) ==
    { IF \E n \in o.limit : n # 0 THEN Limit(rows, CHOOSE n \in o.limit : TRUE) ELSE rows :
      rows \in OrderBy(table, {i \in DOMAIN table : MemoryMatches(table[i], o)},
                       SortBy(o), SqliteSortOrder(o)) }

\* searchMemories(options) of SQLiteProvider: the rows are read, their access
\* counts are updated (an error of the UPDATE is caught), the rows as read
\* are returned.
searchMemories(o, updateOk) ==
    /\ provider # "mysql2"
    /\ \A i \in DOMAIN memories : memories[i].accessCount < MaxAccessCount
    /\ \E rows \in SearchMemoriesRows(memories, o) :
          /\ lastCall' = [op |-> "searchMemories", options |-> o, outcome |-> "ok",
                          result |-> SqliteSearchResult(rows),
                          returned |-> Ids(rows), before |-> memories, now |-> clock,
                          updateFailed |-> ~updateOk /\ Len(rows) > 0]
          /\ memories' = IF updateOk /\ Len(rows) > 0
                         THEN updateAccessCount(memories, Ids(rows), clock)
                         ELSE memories
    /\ UNCHANGED <<serverVars, backendVars, nextRowId, docs, clock>>

\* A ready server in front of the better-sqlite3 or the mysql2 provider.
SearchInit == TimeoutInit

SearchNext ==
    \/ \E m \in MemorySamples : provAddMemory(m)
    \/ \E d \in SearchDocSamples : provAddDoc(d)
    \/ \E o \in DocSearchOptions, updateOk \in BOOLEAN : searchDocs(o, updateOk)
    \/ \E o \in SearchOptions, updateOk \in BOOLEAN : searchMemories(o, updateOk)
    \/ Tick

SearchSpec == SearchInit /\ [][SearchNext]_vars

\* ============================================================ access counts
\* Linking and unlinking on their own: clusters with or without a detail,
\* memories added with or without a cluster, then links and unlinks.
LinkNext ==
    \/ \E d \in BOOLEAN : createCluster(d)
    \/ \E c \in clusters \cup {0} : clusterAddMemory(c)
    \/ \E m \in 1..MaxIds, c \in 1..MaxIds : linkMemoryToCluster(m, c)
    \/ \E m \in 1..MaxIds : unlinkMemoryFromCluster(m)

LinkSpec == ClusterInit /\ [][LinkNext]_vars

\* addClusterDetail(clusterId, detail): the detail is stamped with new Date(),
\* inserted, and the parent is stamped with a later new Date().  With foreign
\* keys on, the INSERT for a cluster that does not exist throws.
addClusterDetail(c, later, ok) ==
    /\ Cardinality(DOMAIN clusterTimes.detail) < MaxDetails
    /\ clock + later <= MaxClock
    /\ IF ForeignKeys(provider) /\ c \notin clusters
       THEN /\ lastCall' = [op |-> "addClusterDetail", outcome |-> "error", clusterId |-> c,
                            detailId |-> 0, before |-> clusterTimes, timestampFailed |-> FALSE]
            /\ UNCHANGED <<clusterDetails, clusterTimes, clock>>
       ELSE /\ clusterDetails' = clusterDetails \cup {[clusterId |-> c, key |-> <<"k">>]}
            /\ clusterTimes' = updateClusterTimestamp(
                                   InsertDetail(clusterTimes, DetailId(clusterTimes), c, clock),
                                   c, clock + later, ok)
            /\ clock' = clock + later
            /\ lastCall' = [op |-> "addClusterDetail", outcome |-> "ok", clusterId |-> c,
                            detailId |-> DetailId(clusterTimes), before |-> clusterTimes,
                            timestampFailed |-> ~ok]
    /\ UNCHANGED <<serverVars, timeoutVars, tableVars, docs, provider, clusters,
                   deleteClusterPc, embedding, poolOps, cryptoVars, lifecycle>>

\* updateClusterDetail(detailId, update): throws without a field to set;
\* returns null when no row has the id; otherwise stamps the detail, reads it
\* back and stamps its parent.  The value columns are not part of the rows.
updateClusterDetail(detailId, hasFields, later, ok) ==
    /\ clock + later <= MaxClock
    /\ IF ~hasFields
       THEN /\ lastCall' = [op |-> "updateClusterDetail", outcome |-> "error", clusterId |-> 0,
                            detailId |-> detailId, before |-> clusterTimes,
                            timestampFailed |-> FALSE]
            /\ UNCHANGED <<clusterTimes, clock>>
       ELSE IF detailId \notin DOMAIN clusterTimes.detail
       THEN /\ lastCall' = [op |-> "updateClusterDetail", outcome |-> "null", clusterId |-> 0,
                            detailId |-> detailId, before |-> clusterTimes,
                            timestampFailed |-> FALSE]
            /\ UNCHANGED <<clusterTimes, clock>>
       ELSE LET c == clusterTimes.detail[detailId].clusterId
            IN /\ clusterTimes' = updateClusterTimestamp(
                                      [clusterTimes EXCEPT !.detail[detailId].updatedAt = clock],
                                      c, clock + later, ok)
               /\ clock' = clock + later
               /\ lastCall' = [op |-> "updateClusterDetail", outcome |-> "ok", clusterId |-> c,
                               detailId |-> detailId, before |-> clusterTimes,
                               timestampFailed |-> ~ok]
    /\ UNCHANGED <<serverVars, timeoutVars, tableVars, docs, provider, clusters, clusterDetails,
                   deleteClusterPc, embedding, poolOps, cryptoVars, lifecycle>>

\* Clusters and their details on either SQLite provider, with time passing.
DetailNext ==
    \/ \E d \in BOOLEAN : createCluster(d)
    \/ \E c \in 1..MaxIds, later \in 0..1, ok \in BOOLEAN : addClusterDetail(c, later, ok)
    \/ \E d \in 1..MaxDetails, f \in BOOLEAN, later \in 0..1, ok \in BOOLEAN :
           updateClusterDetail(d, f, later, ok)
    \/ Tick

DetailSpec == ClusterInit /\ [][DetailNext]_vars

\* The updates tried on counted rows: of the row with id 1, and of every row.
AccessUpdateOptions ==
    {o \in UpdateOptions :
        /\ ~Given(o.tags) /\ ~Given(o.context) /\ ~Given(o.importanceLessThan)
        /\ ~Given(o.before) /\ ~Given(o.query)
        /\ o.id \in {{}, {1}}
        /\ Given(o.id) # o.force}

\* Every operation of SQLiteProvider that writes a memory or a doc: the
\* inserts, the searches, the updates, and the cluster operations that set
\* memories.clusterId.
AccessNext ==
    \/ \E m \in {m \in MemorySamples : m.tags = <<>>} : provAddMemory(m)
    \/ \E d \in {d \in DocSamples : d.tags = <<>>} : provAddDoc(d)
    \/ \E updateOk \in BOOLEAN : searchMemories(NoSearchOptions, updateOk)
    \/ \E updateOk \in BOOLEAN : searchDocs(NoDocSearchOptions, updateOk)
    \/ \E o \in AccessUpdateOptions :
           provUpdateMemories(o, [content |-> {}, importance |-> {7}])
    \/ \E o \in AccessUpdateOptions :
           provUpdateDocs(o, [content |-> {<<"z">>}, importance |-> {}])
    \/ createCluster(FALSE)
    \/ \E m \in 1..MaxRows, c \in clusters : linkMemoryToCluster(m, c)
    \/ \E m \in 1..MaxRows : unlinkMemoryFromCluster(m)
    \/ \E c \in clusters : deleteCluster(c, TRUE)

AccessSpec == ProviderInit /\ [][AccessNext]_vars

\* ============================================================ MySQL provider
\* The operations of MySQLProvider whose body is a throw.
MysqlMemoryStubs ==
    {"searchMemories", "getRecentMemories", "getAllMemories", "getStats", "deleteMemories",
     "updateMemories", "updateCluster", "updateClusterDetail", "deleteClusterDetail",
     "deleteCluster", "linkMemoryToCluster", "unlinkMemoryFromCluster"}
MysqlDocStubs == {"getRecentDocs", "getAllDocs", "deleteDocs", "updateDocs"}
MysqlSemanticStubs == {"semanticSearchMemories", "semanticSearchDocs"}
MysqlStubs == MysqlMemoryStubs \cup MysqlDocStubs \cup MysqlSemanticStubs

\* The messages of the errors, character by character.
NotImplementedInMySQLProvider ==
    <<"N", "o", "t", " ", "i", "m", "p", "l", "e", "m", "e", "n", "t", "e",
      "d", " ", "i", "n", " ", "M", "y", "S", "Q", "L", "P", "r", "o", "v",
      "i", "d", "e", "r">>
MethodNotImplemented ==
    <<"M", "e", "t", "h", "o", "d", " ", "n", "o", "t", " ", "i", "m", "p",
      "l", "e", "m", "e", "n", "t", "e", "d", ".">>
SemanticSearchNotImplemented ==
    <<"S", "e", "m", "a", "n", "t", "i", "c", " ", "s", "e", "a", "r", "c",
      "h", " ", "i", "s", " ", "n", "o", "t", " ", "i", "m", "p", "l", "e",
      "m", "e", "n", "t", "e", "d", " ", "f", "o", "r", " ", "M", "y", "S",
      "Q", "L", "P", "r", "o", "v", "i", "d", "e", "r", ".", " ", "P", "l",
      "e", "a", "s", "e", " ", "u", "s", "e", " ", "S", "Q", "L", "i", "t",
      "e", "P", "r", "o", "v", "i", "d", "e", "r", " ", "f", "o", "r", " ",
      "t", "h", "i", "s", " ", "f", "e", "a", "t", "u", "r", "e", ".">>

StubMessage(op) ==
    IF op \in MysqlDocStubs THEN MethodNotImplemented
    ELSE IF op \in MysqlSemanticStubs THEN SemanticSearchNotImplemented
    ELSE NotImplementedInMySQLProvider

\* Mutant: the stub resolves, as if it had done the work.
MysqlStubResolves(op) == [outcome |-> "ok", message |-> <<>>]

\* throw new Error(message): the call fails, with this message.
MysqlStub(op) == [outcome |-> "error", message |-> StubMessage(op)]

\* The stored data of the MySQL database.
StoredData == <<memories, docs, clusters, clusterDetails, embedding>>

\* A call of an operation MySQLProvider does not implement; the throw is the
\* first and only statement of each.
mysqlStub(op) ==
    /\ provider = "mysql2"
    /\ lastCall' = [op |-> op, outcome |-> MysqlStub(op).outcome,
                    message |-> MysqlStub(op).message, before |-> StoredData]
    /\ UNCHANGED <<serverVars, backendVars, tableVars, docs, clock>>

\* A doc that comes with its embedding, and one that comes without.
MysqlDocSamples ==
    {[content |-> <<"a">>, tags |-> <<>>, embedding |-> {}],
     [content |-> <<"b">>, tags |-> <<>>, embedding |-> {9}]}

\* MySQLProvider.addDoc: INSERT INTO docs (..., embedding), the embedding
\* being entry.embedding ? JSON.stringify(entry.embedding) : null.
mysqlAddDoc(d) ==
    /\ provider = "mysql2"
    /\ nextRowId <= MaxRows
    /\ docs' = addDoc(docs, nextRowId, d, clock)
    /\ embedding' = IF Given(d.embedding)
                    THEN embedding @@ (nextRowId :> CHOOSE e \in d.embedding : TRUE)
                    ELSE embedding
    /\ nextRowId' = nextRowId + 1
    /\ lastCall' = [op |-> "addDoc"]
    /\ UNCHANGED <<serverVars, clusterVars, timeoutVars, memories, clock, poolOps, clusterTimes, cryptoVars, lifecycle>>

\* embedSvc.generateEmbedding(row.content): a vector computed from the content.
generateEmbedding(content) == 1 + Len(content)

\* Mutant: SELECT id, content FROM memories, every row being backfilled again.
BackfillEveryRow(table, column) == {i \in DOMAIN table : TRUE}

\* SELECT id, content FROM memories WHERE embedding IS NULL (and FROM docs)
BackfillRows(table, column) == {i \in DOMAIN table : table[i].id \notin DOMAIN column}

\* The rows the two SELECTs of migrateSchema return.
BackfillSelected ==
    {memories[i] : i \in BackfillRows(memories, embedding)}
        \cup {docs[i] : i \in BackfillRows(docs, embedding)}

\* Mutant: the loop ends at the first row that fails (ids standing for the
\* order of the SELECT).
BackfillStopsAtFailure(rows, failed) ==
    {r \in rows : \A q \in rows : q.id <= r.id => q.id \notin failed}

\* for (const row of rows) { try { generateEmbedding; UPDATE } catch { log } }:
\* the rows written are those of which neither statement failed.
BackfillWritten(rows, failed) == {r \in rows : r.id \notin failed}

\* Mutant: the pass goes on to the backfill without the embedding service.
MigrateIgnoresService(serviceOk, rows, failed) == BackfillWritten(rows, failed)

\* try { await embedSvc.initialize() } catch { console.error; return }: no
\* row is written when the service does not start.
MigrateWritten(serviceOk, rows, failed) ==
    IF serviceOk THEN BackfillWritten(rows, failed) ELSE {}

\* The two backfill loops of migrateSchema: UPDATE ... SET embedding = ? WHERE
\* id = ? for each selected row whose generateEmbedding succeeds; a failure
\* is caught and the loop goes on with the next row.
Backfill(column, rows) ==
    [id \in DOMAIN column \cup {r.id : r \in rows} |->
        IF \E r \in rows : r.id = id
        THEN generateEmbedding((CHOOSE r \in rows : r.id = id).content)
        ELSE column[id]]

\* initialize() of a new server process on the database: the CREATE TABLE
\* IF NOT EXISTS statements, of which the one of memories names accessCount
\* twice and is refused by the servers that check the columns of an existing
\* table (createOk false), then migrateSchema: the embedding columns exist,
\* embedSvc.initialize() fails and the pass returns (serviceOk false), or
\* the rows without embedding are backfilled, but for those whose
\* generateEmbedding fails.
mysqlInitialize(createOk, serviceOk, failed) ==
    /\ provider = "mysql2"
    /\ IF ~createOk
       THEN /\ lastCall' = [op |-> "initialize", outcome |-> "error"]
            /\ UNCHANGED embedding
       ELSE LET written == MigrateWritten(serviceOk, BackfillSelected, failed)
            IN  /\ embedding' = Backfill(embedding, written)
                /\ lastCall' = [op |-> "migrateSchema", outcome |-> "ok",
                                service |-> serviceOk, failed |-> failed,
                                writes |-> {r.id : r \in written},
                                before |-> embedding,
                                rows |-> {memories[i].id : i \in DOMAIN memories}
                                             \cup {docs[i].id : i \in DOMAIN docs}]
    /\ UNCHANGED <<serverVars, clusterVars, timeoutVars, tableVars, docs, clock, poolOps, clusterTimes, cryptoVars, lifecycle>>

\* A ready server in front of the mysql2 provider.
MysqlInit == TimeoutInit /\ provider = "mysql2"

MysqlNext ==
    \/ \E m \in MemorySamples : provAddMemory(m)
    \/ \E d \in MysqlDocSamples : mysqlAddDoc(d)
    \/ \E op \in MysqlStubs : mysqlStub(op)
    \/ \E createOk, serviceOk \in BOOLEAN, failed \in SUBSET (1..MaxRows) :
           mysqlInitialize(createOk, serviceOk, failed)

MysqlSpec == MysqlInit /\ [][MysqlNext]_vars

\* =========================================================== connection pool
\* The connections of the pool that calls hold.
RECURSIVE HeldBy(_)
HeldBy(S) ==
    IF S = {} THEN 0
    ELSE LET o == CHOOSE o \in S : TRUE IN poolOps[o].held + HeldBy(S \ {o})
FreeConnections == PoolSize - HeldBy(1..MaxOps)

InitializeRunning == \E o \in 1..MaxOps : poolOps[o].kind = "initialize"
PoolQuiet == \A o \in 1..MaxOps : poolOps[o].pc = "idle"

\* Mutant: the block ends and its connection is not given back.
FinallyKeeps(held) == held

\* try { ... } finally { conn.release(); }: whether the block returns or
\* throws, the one connection it took goes back to the pool.
FinallyRelease(held) == held - 1

\* The calls of MySQLProvider that take a connection and, holding it, call a
\* method that takes another.
NestedCalls == {"initialize", "createCluster", "getClusterById", "searchClusters"}

\* A call begins and awaits this.pool.getConnection().  initialize() is the
\* first call of a server process; the others come once it has returned.
\* arg: the cluster asked for (getClusterById), or 1 for options.details
\* given and 0 for none (createCluster).
poolStart(o, kind, arg) ==
    /\ provider = "mysql2"
    /\ poolOps[o].pc = "idle"
    /\ IF kind = "initialize" THEN PoolQuiet ELSE ~InitializeRunning
    /\ poolOps' = [poolOps EXCEPT ![o] = [IdleOp EXCEPT !.kind = kind,
                                                        !.pc = "getConnection",
                                                        !.arg = arg]]
    /\ UNCHANGED <<serverVars, tableVars, docs, clock, lastCall, clusterVars, timeoutVars,
                   embedding, clusterTimes, cryptoVars, lifecycle>>

\* waitForConnections: true, no queueLimit: getConnection resolves when a
\* connection of the pool is free, and waits until then.
poolGetConnection(o) ==
    /\ poolOps[o].pc = "getConnection"
    /\ FreeConnections > 0
    /\ poolOps' = [poolOps EXCEPT ![o].held = 1, ![o].pc = "query"]
    /\ UNCHANGED <<serverVars, tableVars, docs, clock, lastCall, clusterVars, timeoutVars,
                   embedding, clusterTimes, cryptoVars, lifecycle>>

\* initialize: the CREATE TABLE IF NOT EXISTS statements; when one is refused
\* the finally block releases the connection and initialize rejects.
initCreateTables(o, createOk) ==
    /\ poolOps[o].kind = "initialize" /\ poolOps[o].pc = "query"
    /\ IF createOk
       THEN /\ poolOps' = [poolOps EXCEPT ![o].pc = "getSecond"]
            /\ UNCHANGED lastCall
       ELSE /\ poolOps' = [poolOps EXCEPT
                            ![o] = [IdleOp EXCEPT !.held = FinallyRelease(poolOps[o].held)]]
            /\ lastCall' = [op |-> "initialize", outcome |-> "error"]
    /\ UNCHANGED <<serverVars, tableVars, docs, clock, clusterVars, timeoutVars, embedding, clusterTimes, cryptoVars, lifecycle>>

\* createCluster: INSERT INTO details_clusters, then, holding the connection,
\* addClusterDetail for each detail of the options.
createClusterInsert(o) ==
    /\ poolOps[o].kind = "createCluster" /\ poolOps[o].pc = "query"
    /\ nextRowId <= MaxIds
    /\ clusters' = clusters \cup {nextRowId}
    /\ clusterTimes' = InsertCluster(clusterTimes, nextRowId, clock)
    /\ nextRowId' = nextRowId + 1
    /\ poolOps' = [poolOps EXCEPT ![o].pc = IF poolOps[o].arg = 1 THEN "getSecond"
                                                                 ELSE "release",
                                  ![o].arg = nextRowId,
                                  ![o].left = poolOps[o].arg]
    /\ UNCHANGED <<serverVars, memories, docs, clock, lastCall, provider, clusterDetails,
                   deleteClusterPc, timeoutVars, embedding, cryptoVars, lifecycle>>

\* getClusterById: SELECT * FROM details_clusters WHERE id = ?; null when
\* there is no row, otherwise getClusterDetails(id) with the connection held.
getClusterByIdSelect(o) ==
    /\ poolOps[o].kind = "getClusterById" /\ poolOps[o].pc = "query"
    /\ poolOps' = [poolOps EXCEPT ![o].pc = IF poolOps[o].arg \in clusters THEN "getSecond"
                                                                        ELSE "release",
                                  ![o].left = Cardinality(clusters \cap {poolOps[o].arg})]
    /\ UNCHANGED <<serverVars, tableVars, docs, clock, lastCall, clusterVars, timeoutVars,
                   embedding, clusterTimes, cryptoVars, lifecycle>>

\* searchClusters: SELECT * FROM details_clusters, then getClusterDetails
\* for each row, with the connection held.
searchClustersSelect(o) ==
    /\ poolOps[o].kind = "searchClusters" /\ poolOps[o].pc = "query"
    /\ poolOps' = [poolOps EXCEPT ![o].pc = IF clusters # {} THEN "getSecond" ELSE "release",
                                  ![o].left = Cardinality(clusters)]
    /\ UNCHANGED <<serverVars, tableVars, docs, clock, lastCall, clusterVars, timeoutVars,
                   embedding, clusterTimes, cryptoVars, lifecycle>>

\* The method called with the connection held awaits its own
\* this.pool.getConnection().
innerGetConnection(o) ==
    /\ poolOps[o].pc = "getSecond"
    /\ FreeConnections > 0
    /\ poolOps' = [poolOps EXCEPT ![o].held = 2, ![o].pc = "inner"]
    /\ UNCHANGED <<serverVars, tableVars, docs, clock, lastCall, clusterVars, timeoutVars,
                   embedding, clusterTimes, cryptoVars, lifecycle>>

\* migrateSchema with its connection: the columns, the embedding service,
\* the backfill; finally conn.release().
mysqlMigrateSchema(o, serviceOk, failed) ==
    /\ poolOps[o].kind = "initialize" /\ poolOps[o].pc = "inner"
    /\ LET written == MigrateWritten(serviceOk, BackfillSelected, failed)
       IN  /\ embedding' = Backfill(embedding, written)
           /\ poolOps' = [poolOps EXCEPT
                  ![o].held = FinallyRelease(poolOps[o].held), ![o].pc = "release",
                  ![o].result = [service |-> serviceOk, failed |-> failed,
                                 writes |-> {r.id : r \in written},
                                 before |-> embedding,
                                 rows |-> {memories[i].id : i \in DOMAIN memories}
                                              \cup {docs[i].id : i \in DOMAIN docs}]]
    /\ UNCHANGED <<serverVars, tableVars, docs, clock, lastCall, clusterVars, timeoutVars,
                   clusterTimes, cryptoVars, lifecycle>>

\* addClusterDetail with its connection: INSERT INTO cluster_details, UPDATE
\* details_clusters SET updatedAt; finally conn.release().
mysqlAddClusterDetail(o) ==
    /\ poolOps[o].kind = "createCluster" /\ poolOps[o].pc = "inner"
    /\ clusterDetails' = clusterDetails \cup {[clusterId |-> poolOps[o].arg, key |-> <<"k">>]}
    /\ clusterTimes' = updateClusterTimestamp(
                           InsertDetail(clusterTimes, DetailId(clusterTimes),
                                        poolOps[o].arg, clock),
                           poolOps[o].arg, clock, TRUE)
    /\ poolOps' = [poolOps EXCEPT ![o].held = FinallyRelease(poolOps[o].held),
                                  ![o].pc = "release", ![o].left = 0]
    /\ UNCHANGED <<serverVars, tableVars, docs, clock, lastCall, provider, clusters,
                   deleteClusterPc, timeoutVars, embedding, cryptoVars, lifecycle>>

\* getClusterDetails with its connection: SELECT * FROM cluster_details;
\* finally conn.release().  searchClusters then goes on to its next row.
mysqlGetClusterDetails(o) ==
    /\ poolOps[o].kind \in {"getClusterById", "searchClusters"} /\ poolOps[o].pc = "inner"
    /\ poolOps' = [poolOps EXCEPT ![o].held = FinallyRelease(poolOps[o].held),
                                  ![o].pc = IF poolOps[o].left > 1 THEN "getSecond"
                                                                   ELSE "release",
                                  ![o].left = poolOps[o].left - 1]
    /\ UNCHANGED <<serverVars, tableVars, docs, clock, lastCall, clusterVars, timeoutVars,
                   embedding, clusterTimes, cryptoVars, lifecycle>>

\* The call returns: finally conn.release().  held: the connections the call
\* still has when it has returned.
poolRelease(o) ==
    /\ poolOps[o].pc = "release"
    /\ poolOps' = [poolOps EXCEPT
                    ![o] = [IdleOp EXCEPT !.held = FinallyRelease(poolOps[o].held)]]
    /\ lastCall' = IF poolOps[o].kind = "initialize"
                   THEN [op |-> "migrateSchema", outcome |-> "ok",
                         service |-> poolOps[o].result.service,
                         failed |-> poolOps[o].result.failed,
                         writes |-> poolOps[o].result.writes,
                         before |-> poolOps[o].result.before,
                         rows |-> poolOps[o].result.rows,
                         held |-> FinallyRelease(poolOps[o].held)]
                   ELSE [op |-> poolOps[o].kind, outcome |-> "ok",
                         held |-> FinallyRelease(poolOps[o].held)]
    /\ UNCHANGED <<serverVars, tableVars, docs, clock, clusterVars, timeoutVars, embedding, clusterTimes, cryptoVars, lifecycle>>

\* addMemory: one connection, taken and released around the INSERT.
poolAddMemory(m) ==
    /\ ~InitializeRunning
    /\ FreeConnections > 0
    /\ provAddMemory(m)

PoolNext ==
    \/ \E o \in 1..MaxOps, kind \in NestedCalls, arg \in 0..1 : poolStart(o, kind, arg)
    \/ \E o \in 1..MaxOps : poolGetConnection(o)
    \/ \E o \in 1..MaxOps, createOk \in BOOLEAN : initCreateTables(o, createOk)
    \/ \E o \in 1..MaxOps : createClusterInsert(o)
    \/ \E o \in 1..MaxOps : getClusterByIdSelect(o)
    \/ \E o \in 1..MaxOps : searchClustersSelect(o)
    \/ \E o \in 1..MaxOps : innerGetConnection(o)
    \/ \E o \in 1..MaxOps, serviceOk \in BOOLEAN,
          failed \in SUBSET {r.id : r \in BackfillSelected} :
           mysqlMigrateSchema(o, serviceOk, failed)
    \/ \E o \in 1..MaxOps : mysqlAddClusterDetail(o)
    \/ \E o \in 1..MaxOps : mysqlGetClusterDetails(o)
    \/ \E o \in 1..MaxOps : poolRelease(o)
    \/ \E m \in {m \in MemorySamples : m.tags = <<>>} : poolAddMemory(m)

PoolSpec == MysqlInit /\ [][PoolNext]_vars

\* initialize() on its own between the adds of a running server: each start
\* of the provider takes a connection, creates the tables, runs migrateSchema
\* and releases.
MigrateNext ==
    \/ \E o \in 1..MaxOps : poolStart(o, "initialize", 0)
    \/ \E o \in 1..MaxOps : poolGetConnection(o)
    \/ \E o \in 1..MaxOps, createOk \in BOOLEAN : initCreateTables(o, createOk)
    \/ \E o \in 1..MaxOps : innerGetConnection(o)
    \/ \E o \in 1..MaxOps, serviceOk \in BOOLEAN,
          failed \in SUBSET {r.id : r \in BackfillSelected} :
           mysqlMigrateSchema(o, serviceOk, failed)
    \/ \E o \in 1..MaxOps : poolRelease(o)
    \/ \E m \in {m \in MemorySamples : m.tags = <<>>} : poolAddMemory(m)

MigrateSpec == MysqlInit /\ [][MigrateNext]_vars

\* ------------------------------------------------- the encryption envelope
\* encryptContent and decryptContent as the specification describes them:
\* content is a string over Alphabet; a call draws a symmetric key, shifts
\* every character by it and wraps the key with the long-lived pair; the
\* stored envelope is the text "{", the wrapped key, the ciphertext, "}".
\* Symmetric keys are 1..KeySpace-1; KeyPair is the long-lived pair, both
\* halves; MaxLen is the longest plaintext.
KeySpace == 3
KeyPair == 1
MaxLen == 2
Alphabet == <<"a", "b", "c">>
Digits == <<"0", "1", "2", "3", "4", "5", "6", "7", "8", "9">>

SymmetricKeys == 1..(KeySpace - 1)
Plaintexts == UNION {[1..n -> {Alphabet[i] : i \in DOMAIN Alphabet}] : n \in 0..MaxLen}

CharIndex(c) == CHOOSE i \in DOMAIN Alphabet : Alphabet[i] = c
Shift(c, k) == Alphabet[((CharIndex(c) - 1 + k) % Len(Alphabet)) + 1]
Unshift(c, k) == Alphabet[((CharIndex(c) - 1 + KeySpace * Len(Alphabet) - k) % Len(Alphabet)) + 1]
Digit(n) == Digits[n + 1]
DigitValue(c) == (CHOOSE i \in DOMAIN Digits : Digits[i] = c) - 1

\* The symmetric key wrapped with the public half and unwrapped with the
\* private half of the pair.
Wrap(k) == (k + KeyPair) % KeySpace
Unwrap(w, priv) == (w + KeySpace - priv) % KeySpace

\* Mutant: the key is stored as it is and unwrapped all the same.
EncryptWithoutWrap(p, k) ==
    [content |-> <<"{", Digit(k)>> \o [i \in 1..Len(p) |-> Shift(p[i], k)] \o <<"}">>,
     encrypted |-> TRUE]

\* encryptContent(plaintext) -> envelope, with the "encrypted" flag set.
encryptContent(p, k) ==
    [content |-> <<"{", Digit(Wrap(k))>> \o [i \in 1..Len(p) |-> Shift(p[i], k)] \o <<"}">>,
     encrypted |-> TRUE]

\* The stored text parses as an envelope: braces, a wrapped key, ciphertext.
WellFormed(c) ==
    /\ Len(c) >= 3
    /\ c[1] = "{" /\ c[Len(c)] = "}"
    /\ \E n \in 0..(KeySpace - 1) : c[2] = Digit(n)
    /\ \A i \in 3..(Len(c) - 1) : \E j \in DOMAIN Alphabet : c[i] = Alphabet[j]

\* The key cannot be unwrapped or the envelope cannot be read.
DecryptFails(record, priv) == priv = 0 \/ ~WellFormed(record.content)

\* Mutant: a failure of the decryption is passed on to the caller.
DecryptRaises(record, priv) ==
    IF record.encrypted /\ DecryptFails(record, priv)
    THEN [outcome |-> "raised", value |-> <<>>]
    ELSE [outcome |-> "ok", value |-> record.content]

\* decryptContent(record): the content as it is when the flag is false or
\* absent; the decrypted content when it is true; on any failure a warning
\* and the raw stored value.
decryptContent(record, priv) ==
    IF ~record.encrypted THEN [outcome |-> "ok", value |-> record.content]
    ELSE IF DecryptFails(record, priv) THEN [outcome |-> "ok", value |-> record.content]
    ELSE LET c == record.content
             k == Unwrap(DigitValue(c[2]), priv)
         IN [outcome |-> "ok", value |-> [i \in 1..(Len(c) - 3) |-> Unshift(c[i + 2], k)]]

\* The "encrypted" flag of the metadata of a row, false when absent.
Encrypted(id) == id \in DOMAIN metadata /\ metadata[id]
SetFlag(m, id, flag) == [i \in DOMAIN m \cup {id} |-> IF i = id THEN flag ELSE m[i]]

\* What a row may hold at rest: plaintext, envelopes, and envelopes that were
\* cut short, lost their key field or hold bytes that are no ciphertext.
CorruptSamples ==
    {<<>>, <<"{", "1", "a">>, <<"{", "x", "a", "}">>, <<"{", "1", "?", "}">>, <<"{", "}">>}
StoredSamples ==
    Plaintexts \cup {encryptContent(p, k).content : p \in Plaintexts, k \in SymmetricKeys}
               \cup CorruptSamples

\* A read path (search_memory, get_memories, load_all_memory): the row goes
\* through decryptContent before it is returned.
readMemory(id) ==
    /\ \E i \in DOMAIN memories : memories[i].id = id
    /\ LET row == CHOOSE r \in {memories[i] : i \in DOMAIN memories} : r.id = id
           record == [content |-> row.content, encrypted |-> Encrypted(id)]
           result == decryptContent(record, privateKey)
       IN lastCall' = [op |-> "decryptContent", record |-> record, key |-> privateKey,
                       outcome |-> result.outcome, value |-> result.value]
    /\ UNCHANGED <<serverVars, tableVars, docs, clock, clusterVars, timeoutVars,
                   embedding, poolOps, clusterTimes, cryptoVars, lifecycle>>

\* A write path with encryption enabled: the content goes through
\* encryptContent before it is persisted, with the flag in the metadata.
writeMemory(p, k) ==
    /\ nextRowId <= MaxRows
    /\ LET envelope == encryptContent(p, k)
       IN /\ memories' = addMemory(memories, nextRowId,
                                   [content |-> envelope.content, tags |-> <<>>,
                                    context |-> <<>>, importance |-> 5],
                                   clock, "live", 0, 0)
          /\ metadata' = SetFlag(metadata, nextRowId, envelope.encrypted)
    /\ nextRowId' = nextRowId + 1
    /\ lastCall' = [op |-> "encryptContent", plaintext |-> p, key |-> k]
    /\ UNCHANGED <<serverVars, docs, clock, clusterVars, timeoutVars,
                   embedding, poolOps, clusterTimes, privateKey, lifecycle>>

\* The key files are lost, or found again by a later start.
loadKeys(found) ==
    /\ privateKey' = IF found THEN KeyPair ELSE 0
    /\ privateKey' # privateKey
    /\ UNCHANGED <<serverVars, tableVars, docs, clock, lastCall, clusterVars, timeoutVars,
                   embedding, poolOps, clusterTimes, metadata, lifecycle>>

\* A table with one row of any stored kind, flagged or not, with or without
\* the private key.
DecryptInit ==
    /\ proc = 1
    /\ runPc = "running"
    /\ dbState = "open"
    /\ providerReady = TRUE
    /\ queueProcessing = FALSE
    /\ queueExists = FALSE
    /\ queueFile = <<>>
    /\ drainPc = "done"
    /\ drainLines = <<>>
    /\ drainIdx = 0
    /\ processedCount = 0
    /\ drainOutcome = "missing"
    /\ \E c \in StoredSamples :
           memories = addMemory(<<>>, 1, [content |-> c, tags |-> <<>>, context |-> <<>>,
                                          importance |-> 5], 0, "live", 0, 0)
    /\ nextRowId = MaxRows
    /\ reqs = [r \in 1..MaxRequests |-> NoRequest]
    /\ nextReq = 1
    /\ docs = <<>>
    /\ clock = 0
    /\ lastCall = NoCall
    /\ provider = "better-sqlite3"
    /\ clusters = {}
    /\ clusterDetails = {}
    /\ deleteClusterPc = NoDeleteCluster
    /\ opPromise = "none"
    /\ timer = "none"
    /\ callerOutcome = "none"
    /\ embedding = <<>>
    /\ poolOps = [o \in 1..MaxOps |-> IdleOp]
    /\ clusterTimes = NoClusterTimes
    /\ lifecycle = NoLifecycle
    /\ privateKey \in {0, KeyPair}
    /\ metadata \in {<<>>, [i \in {1} |-> FALSE], [i \in {1} |-> TRUE]}

DecryptNext ==
    \/ \E id \in 1..MaxRows : readMemory(id)
    \/ \E p \in Plaintexts, k \in SymmetricKeys : writeMemory(p, k)
    \/ \E found \in BOOLEAN : loadKeys(found)

DecryptSpec == DecryptInit /\ [][DecryptNext]_vars

\* The options of a call on one row.
UpdateById(id) ==
    [id |-> {id}, tags |-> {}, context |-> {}, query |-> {}, importanceLessThan |-> {},
     before |-> {}, force |-> FALSE]

\* Mutant: the update hands the content to the provider as it came.
RawUpdate(u, k) == [content |-> u.content, importance |-> {}]

\* The update the handler hands to the provider with encryption enabled:
\* content, when given, as the envelope encryptContent makes of it.
EncryptedUpdate(u, k) ==
    [content |-> {encryptContent(p, k).content : p \in u.content}, importance |-> {}]

\* update_memory with encryption enabled: new content goes through
\* encryptContent and the flag is set with it; an update of the metadata alone
\* keeps the flag the row has.
updateEncrypted(id, u, k) ==
    /\ providerReady
    /\ \E i \in DOMAIN memories : memories[i].id = id
    /\ IF ~Given(u.content) /\ ~u.metadata
       THEN /\ lastCall' = [op |-> "updateMemories", outcome |-> "error", id |-> id, update |-> u]
            /\ UNCHANGED <<memories, metadata>>
       ELSE /\ memories' = IF Given(u.content)
                           THEN updateMemories(memories, UpdateById(id), EncryptedUpdate(u, k))
                           ELSE memories
            /\ metadata' = IF Given(u.content) THEN SetFlag(metadata, id, TRUE)
                           ELSE SetFlag(metadata, id, Encrypted(id))
            /\ lastCall' = [op |-> "updateMemories", outcome |-> "ok", id |-> id, update |-> u]
    /\ UNCHANGED <<serverVars, nextRowId, docs, clock, clusterVars, timeoutVars,
                   embedding, poolOps, clusterTimes, privateKey, lifecycle>>

\* add_memory before the gate opens: the arguments are appended to the queue
\* file, here while no other line waits.
queueAdd(p) ==
    /\ ~providerReady
    /\ queueFile = <<>>
    /\ queueFile' = AppendFile(queueFile, QueueItem(0, p, 5))
    /\ queueExists' = TRUE
    /\ UNCHANGED <<otherVars, gateVars, drainVars, tableVars, reqVars>>

\* The drain writes the next queued add through the write path and takes
\* the line off the file.
drainEncrypted(k) ==
    /\ ~providerReady
    /\ queueFile # <<>>
    /\ nextRowId <= MaxRows
    /\ LET line == Head(queueFile)
           envelope == encryptContent(line.content, k)
       IN /\ memories' = addMemory(memories, nextRowId,
                                   DrainMemory(envelope.content, line.importance),
                                   clock, "drain", line.id, proc)
          /\ metadata' = SetFlag(metadata, nextRowId, envelope.encrypted)
    /\ nextRowId' = nextRowId + 1
    /\ queueFile' = Tail(queueFile)
    /\ lastCall' = [op |-> "drainQueue"]
    /\ UNCHANGED <<gateVars, drainVars, queueExists, reqVars, docs, clock, clusterVars,
                   timeoutVars, embedding, poolOps, clusterTimes, privateKey, lifecycle>>

\* Mutant: the migration flags the row and leaves its content as it was.
MigrateFlagOnly(row, k) == row

\* The row the migration writes for a row without the flag.
MigrateRow(row, k) == [row EXCEPT !.content = encryptContent(@, k).content]

\* The plaintext-to-encrypted migration of a start with encryption enabled:
\* one row whose flag is false or absent is encrypted and flagged, in one write.
migrateEncryption(id, k) ==
    /\ ~providerReady
    /\ \E i \in DOMAIN memories : memories[i].id = id
    /\ ~Encrypted(id)
    /\ memories' = [i \in DOMAIN memories |->
                       IF memories[i].id = id THEN MigrateRow(memories[i], k) ELSE memories[i]]
    /\ metadata' = SetFlag(metadata, id, TRUE)
    /\ lastCall' = [op |-> "migrateEncryption", id |-> id,
                    before |-> CHOOSE r \in {memories[i] : i \in DOMAIN memories} : r.id = id]
    /\ UNCHANGED <<serverVars, nextRowId, docs, clock, clusterVars, timeoutVars,
                   embedding, poolOps, clusterTimes, privateKey, lifecycle>>

\* The gate opens once migration and drain are over.
openGate ==
    /\ ~providerReady
    /\ queueFile = <<>>
    /\ providerReady' = TRUE
    /\ UNCHANGED <<otherVars, proc, runPc, dbState, queueProcessing, drainVars, fileVars,
                   tableVars, reqVars>>

\* The contents the calls of this part write.
EnvelopeSamples == {<<"a">>, <<"b", "c">>}

\* A start with encryption enabled over a table that an earlier run without
\* it may have filled with plaintext.
EnvelopeInit ==
    /\ proc = 1
    /\ runPc = "running"
    /\ dbState = "open"
    /\ providerReady = FALSE
    /\ queueProcessing = FALSE
    /\ queueExists = FALSE
    /\ queueFile = <<>>
    /\ drainPc = "done"
    /\ drainLines = <<>>
    /\ drainIdx = 0
    /\ processedCount = 0
    /\ drainOutcome = "missing"
    /\ \/ memories = <<>> /\ nextRowId = 1
       \/ /\ \E p \in EnvelopeSamples :
                 memories = addMemory(<<>>, 1, [content |-> p, tags |-> <<>>, context |-> <<>>,
                                                importance |-> 5], 0, "live", 0, 0)
          /\ nextRowId = 2
    /\ reqs = [r \in 1..MaxRequests |-> NoRequest]
    /\ nextReq = 1
    /\ docs = <<>>
    /\ clock = 0
    /\ lastCall = NoCall
    /\ provider = "better-sqlite3"
    /\ clusters = {}
    /\ clusterDetails = {}
    /\ deleteClusterPc = NoDeleteCluster
    /\ opPromise = "none"
    /\ timer = "none"
    /\ callerOutcome = "none"
    /\ embedding = <<>>
    /\ poolOps = [o \in 1..MaxOps |-> IdleOp]
    /\ clusterTimes = NoClusterTimes
    /\ lifecycle = NoLifecycle
    /\ privateKey = KeyPair
    /\ metadata \in {<<>>} \cup {[i \in {memories[j].id : j \in DOMAIN memories} |-> FALSE]}

UpdateArgs == {[content |-> c, metadata |-> m] : c \in {{}, {<<"a">>}}, m \in BOOLEAN}

EnvelopeNext ==
    \/ \E p \in EnvelopeSamples : queueAdd(p)
    \/ \E k \in SymmetricKeys : drainEncrypted(k)
    \/ \E id \in 1..MaxRows, k \in SymmetricKeys : migrateEncryption(id, k)
    \/ openGate
    \/ \E p \in EnvelopeSamples, k \in SymmetricKeys : providerReady /\ writeMemory(p, k)
    \/ \E id \in 1..MaxRows, u \in UpdateArgs, k \in SymmetricKeys : updateEncrypted(id, u, k)
    \/ \E id \in 1..MaxRows : readMemory(id)

EnvelopeSpec == EnvelopeInit /\ [][EnvelopeNext]_vars


\* ======================================================== the tool handlers
\* handleDeleteMemory: const options = { id, tags, context, query,
\* importanceLessThan, before }, each copied from args when it has the right
\* type. args.force is not copied, so options.force is undefined.
DeleteMemoryOptions(args) == [args EXCEPT !.force = FALSE]

\* `Deleted ${deletedCount} memory entries.`
DeletedText(n) == <<"Deleted", n, "memory entries.">>

\* A delete_memory tool call on the open gate: handleDeleteMemory awaits
\* provider.deleteMemories(options); the dispatcher's catch turns the error
\* into a response with isError.
handleDeleteMemory(args) ==
    /\ providerReady
    /\ LET o == DeleteMemoryOptions(args) IN
       IF DeleteMemoriesRefuses(o)
       THEN /\ lastCall' = [op |-> "delete_memory", args |-> args, options |-> o,
                            isError |-> TRUE, text |-> <<"Error">>, before |-> memories]
            /\ UNCHANGED memories
       ELSE /\ memories' = deleteMemories(memories, o)
            /\ lastCall' = [op |-> "delete_memory", args |-> args, options |-> o,
                            isError |-> FALSE,
                            text |-> DeletedText(Len(memories) - Len(memories')),
                            before |-> memories]
    /\ UNCHANGED <<serverVars, backendVars, docs, clock, nextRowId>>

ToolNext ==
    \/ \E m \in MemorySamples : provAddMemory(m)
    \/ \E a \in DeleteOptions : handleDeleteMemory(a)
    \/ Tick

ToolSpec == ProviderInit /\ [][ToolNext]_vars

\* ------------------------------------------------ add_memory, live and replayed
\* String.prototype.trim over strings whose only white space is " ".
RECURSIVE TrimStart(_)
TrimStart(s) == IF s # <<>> /\ Head(s) = " " THEN TrimStart(Tail(s)) ELSE s
RECURSIVE TrimEnd(_)
TrimEnd(s) ==
    IF s # <<>> /\ s[Len(s)] = " " THEN TrimEnd(SubSeq(s, 1, Len(s) - 1)) ELSE s
Trim(s) == TrimEnd(TrimStart(s))

\* The arguments of an add_memory call: content (NoContent when absent), tags
\* (an array of strings, or a value that is not an array), context and
\* importance (0 when absent).
\* handleAddMemory: !content || typeof content !== 'string' ||
\* content.trim().length === 0 throws; !Array.isArray(tags) throws.
InvalidArguments(args) ==
    \/ args.content = NoContent
    \/ Trim(args.content) = <<>>
    \/ ~args.tags.isArray

\* tags.filter(tag => typeof tag === 'string' && tag.trim().length > 0)
FilterTags(tags) == SelectSeq(tags, LAMBDA tag : Trim(tag) # <<>>)

\* The entry handleAddMemory passes to provider.addMemory.
HandledMemory(args) ==
    [content |-> Trim(args.content), tags |-> FilterTags(args.tags.items),
     context |-> Trim(args.context), importance |-> ValidImportance(args.importance)]

\* The entry drainQueue passes to provider.addMemory for a queued line:
\* content: args.content, tags: Array.isArray(args.tags) ? args.tags : [],
\* context: String(args.context || ''), importance: Number(args.importance) || 5.
ReplayedMemory(args) ==
    [content |-> args.content,
     tags |-> IF args.tags.isArray THEN args.tags.items ELSE <<>>,
     context |-> args.context, importance |-> DrainImportance(args.importance)]

\* The columns of a row that come from the caller.
StoredFields(row) ==
    [content |-> row.content, tags |-> row.tags, context |-> row.context,
     importance |-> row.importance]

\* An add_memory call on the open gate, handled by handleAddMemory.
liveAddMemory(args) ==
    /\ providerReady
    /\ IF InvalidArguments(args)
       THEN /\ lastCall' = [op |-> "add_memory", args |-> args, stored |-> FALSE]
            /\ UNCHANGED tableVars
       ELSE /\ nextRowId <= MaxRows
            /\ memories' = addMemory(memories, nextRowId, HandledMemory(args),
                                     clock, "live", 0, proc)
            /\ nextRowId' = nextRowId + 1
            /\ lastCall' = [op |-> "add_memory", args |-> args, stored |-> TRUE,
                            row |-> StoredFields(memories'[Len(memories')])]
    /\ UNCHANGED <<serverVars, backendVars, docs, clock>>

\* An add_memory call before the gate opens: handleQueuedAddMemory appends the
\* arguments as they came, here while no other line waits.
queueAddMemory(args) ==
    /\ ~providerReady
    /\ queueFile = <<>>
    /\ queueFile' = AppendFile(queueFile, [id |-> 0, kind |-> "json", name |-> "add_memory",
                                           arguments |-> args])
    /\ queueExists' = TRUE
    /\ UNCHANGED <<otherVars, gateVars, drainVars, tableVars, reqVars>>

\* drainQueue over the file of one line: the line is written to the backend,
\* or skipped by the catch when the INSERT throws; the file is emptied when the
\* line was applied; the gate is open afterwards.
replayQueue ==
    /\ ~providerReady
    /\ queueFile # <<>>
    /\ LET args == Head(queueFile).arguments
           applied == ~AddMemoryFails(args.content)
       IN IF applied
          THEN /\ nextRowId <= MaxRows
               /\ memories' = addMemory(memories, nextRowId, ReplayedMemory(args),
                                        clock, "drain", 0, proc)
               /\ nextRowId' = nextRowId + 1
               /\ queueFile' = WriteFileEmpty(queueFile)
               /\ lastCall' = [op |-> "drainQueue", args |-> args, stored |-> TRUE,
                               row |-> StoredFields(memories'[Len(memories')])]
          ELSE /\ lastCall' = [op |-> "drainQueue", args |-> args, stored |-> FALSE]
               /\ UNCHANGED <<tableVars, queueFile>>
    /\ providerReady' = TRUE
    /\ UNCHANGED <<proc, runPc, dbState, queueProcessing, drainVars, queueExists, reqVars,
                   backendVars, docs, clock>>

\* A start with nothing queued opens the gate.
replayNothing ==
    /\ ~providerReady
    /\ queueFile = <<>>
    /\ providerReady' = TRUE
    /\ UNCHANGED <<otherVars, proc, runPc, dbState, queueProcessing, drainVars, fileVars,
                   tableVars, reqVars>>

\* The calls of this part: a plain one, and calls that differ from it in one
\* argument each: content absent, empty, blank or padded; tags with a blank
\* entry or not an array; a padded context; importance absent, below 1 or
\* above 10.
PlainArguments ==
    [content |-> <<"m">>, tags |-> [isArray |-> TRUE, items |-> << <<"t">> >>],
     context |-> <<"c">>, importance |-> 2]
ReplayArguments ==
    {PlainArguments}
    \cup {[PlainArguments EXCEPT !.content = c] :
             c \in {NoContent, <<>>, <<" ">>, <<" ", "m", " ">>}}
    \cup {[PlainArguments EXCEPT !.tags = t] :
             t \in {[isArray |-> TRUE, items |-> <<>>],
                    [isArray |-> TRUE, items |-> << <<"t">>, <<" ">> >>],
                    [isArray |-> FALSE, items |-> <<>>]}}
    \cup {[PlainArguments EXCEPT !.context = <<"c", " ">>]}
    \cup {[PlainArguments EXCEPT !.importance = n] : n \in {0, -3, 15}}

ReplayInit ==
    /\ proc = 1
    /\ runPc = "draining"
    /\ dbState = "open"
    /\ providerReady = FALSE
    /\ queueProcessing = FALSE
    /\ queueExists = FALSE
    /\ queueFile = <<>>
    /\ drainPc = "idle"
    /\ drainLines = <<>>
    /\ drainIdx = 0
    /\ processedCount = 0
    /\ drainOutcome = "none"
    /\ memories = <<>>
    /\ nextRowId = 1
    /\ reqs = [r \in 1..MaxRequests |-> NoRequest]
    /\ nextReq = 1
    /\ docs = <<>>
    /\ clock = 0
    /\ lastCall = NoCall
    /\ BackendInit

ReplayNext ==
    \/ \E a \in ReplayArguments : queueAddMemory(a)
    \/ replayQueue
    \/ replayNothing
    \/ \E a \in ReplayArguments : liveAddMemory(a)

ReplaySpec == ReplayInit /\ [][ReplayNext]_vars

\* ------------------------------------------------------ references to clusters
\* addMemory with a clusterId, on any provider: INSERT INTO memories (...,
\* clusterId) VALUES (..., entry.clusterId || null).  The INSERT throws when
\* foreign keys are enforced and no cluster has the id; the MySQL tables are
\* created without foreign keys.
addMemoryWithClusterId(c) ==
    /\ nextRowId <= MaxIds
    /\ Len(memories) < MaxRows
    /\ IF ForeignKeys(provider) /\ c # 0 /\ c \notin clusters
       THEN /\ lastCall' = [op |-> "addMemory", outcome |-> "error", clusterId |-> c]
            /\ UNCHANGED tableVars
       ELSE /\ memories' = addMemory(memories, nextRowId,
                                     [content |-> <<"a">>, tags |-> <<>>, context |-> <<>>,
                                      importance |-> 2, clusterId |-> c],
                                     clock, "live", 0, 0)
            /\ nextRowId' = nextRowId + 1
            /\ lastCall' = [op |-> "addMemory", outcome |-> "ok", clusterId |-> c]
    /\ UNCHANGED <<serverVars, backendVars, docs, clock>>

\* Any of the three providers after initialize(), its tables empty.
IntegrityInit ==
    /\ proc = 1
    /\ runPc = "running"
    /\ dbState = "open"
    /\ providerReady = TRUE
    /\ queueProcessing = FALSE
    /\ queueExists = FALSE
    /\ queueFile = <<>>
    /\ drainPc = "done"
    /\ drainLines = <<>>
    /\ drainIdx = 0
    /\ processedCount = 0
    /\ drainOutcome = "missing"
    /\ memories = <<>>
    /\ nextRowId = 1
    /\ reqs = [r \in 1..MaxRequests |-> NoRequest]
    /\ nextReq = 1
    /\ docs = <<>>
    /\ clock = 0
    /\ lastCall = NoCall
    /\ provider \in {"better-sqlite3", "sqlite3", "mysql2"}
    /\ clusters = {}
    /\ clusterDetails = {}
    /\ deleteClusterPc = NoDeleteCluster
    /\ opPromise = "none"
    /\ timer = "none"
    /\ callerOutcome = "none"
    /\ embedding = <<>>
    /\ poolOps = [o \in 1..MaxOps |-> IdleOp]
    /\ clusterTimes = NoClusterTimes
    /\ lifecycle = NoLifecycle
    /\ privateKey = 0
    /\ metadata = <<>>

\* The calls that write a reference to a cluster or remove a cluster; the
\* MySQL provider implements createCluster, addClusterDetail and addMemory,
\* its other cluster operations throw.
IntegrityNext ==
    \/ createCluster(FALSE)
    \/ \E c \in 0..MaxIds : addMemoryWithClusterId(c)
    \/ \E c \in 1..MaxIds : addClusterDetail(c, 0, TRUE)
    \/ \E m \in 1..MaxIds, c \in 1..MaxIds :
           provider # "mysql2" /\ linkMemoryToCluster(m, c)
    \/ \E c \in clusters, ok \in BOOLEAN : deleteCluster(c, ok)
    \/ \E c \in clusters, ok \in BOOLEAN : sqlite3DeleteClusterUpdate(c, ok)
    \/ \E ok \in BOOLEAN : sqlite3DeleteClusterDelete(ok)

IntegritySpec == IntegrityInit /\ [][IntegrityNext]_vars

\* ------------------------------------------------------- queries of a search
\* Memories whose contents differ in case, and whose importance and time of
\* insertion order them differently.
QuerySamples ==
    {[content |-> <<"a">>, tags |-> << <<"t">> >>, context |-> <<"c">>, importance |-> 9],
     [content |-> <<"B", "a">>, tags |-> <<>>, context |-> <<>>, importance |-> 2]}

\* The options of the searches: none; each filter alone; the two sort keys in
\* both directions; a limit of one row; and queries that hold a character
\* LIKE treats specially.
QueryOptions ==
    {NoSearchOptions,
     [NoSearchOptions EXCEPT !.query = {<<"a">>}],
     [NoSearchOptions EXCEPT !.query = {<<"b">>}],
     [NoSearchOptions EXCEPT !.query = {<<"_", "a">>}],
     [NoSearchOptions EXCEPT !.query = {<<"%">>}],
     [NoSearchOptions EXCEPT !.tags = {<< <<"t">> >>}],
     [NoSearchOptions EXCEPT !.tags = {<< <<"s">>, <<"t">> >>}],
     [NoSearchOptions EXCEPT !.contextFilter = {<<"c">>}],
     [NoSearchOptions EXCEPT !.importanceThreshold = {5}],
     [NoSearchOptions EXCEPT !.sortOrder = {"asc"}],
     [NoSearchOptions EXCEPT !.sortBy = {"importance"}],
     [NoSearchOptions EXCEPT !.sortBy = {"importance"}, !.sortOrder = {"asc"}],
     [NoSearchOptions EXCEPT !.limit = {1}],
     [NoSearchOptions EXCEPT !.query = {<<"a">>}, !.importanceThreshold = {5}, !.limit = {1}]}

QueryNext ==
    \/ \E m \in QuerySamples : provAddMemory(m)
    \/ \E o \in QueryOptions : searchMemories(o, TRUE)
    \/ Tick

QuerySpec == ProviderInit /\ [][QueryNext]_vars

\* ================================================= initialize() and close()
\* dbState is "open" while this.db (SQLiteProvider) or this.pool
\* (MySQLProvider) is set and "closed" while it is null.  The tables, once
\* created, stay in the store over close().

\* SQLiteProvider.initialize: if (this.initPromise) return this.initPromise;
\* the promise is kept once it is made.
InitializeOpens(promise) == promise = "null"

\* SQLiteProvider.initialize().  The executor of the promise runs inside the
\* call: new Database(dbPath), pragma, createTables(), resolve(); or reject(err).
sqliteInitialize(ok) ==
    /\ provider = "better-sqlite3"
    /\ IF InitializeOpens(lifecycle.initPromise)
       THEN /\ dbState' = IF ok THEN "open" ELSE "closed"
            /\ lifecycle' = [lifecycle EXCEPT
                                !.initPromise = IF ok THEN "resolved" ELSE "rejected",
                                !.tables = @ \/ ok]
            /\ lastCall' = [op |-> "initialize", opened |-> ok,
                            outcome |-> IF ok THEN "resolved" ELSE "rejected"]
       ELSE /\ lastCall' = [op |-> "initialize", opened |-> FALSE,
                            outcome |-> lifecycle.initPromise]
            /\ UNCHANGED <<dbState, lifecycle>>
    /\ UNCHANGED <<proc, runPc, providerReady, queueProcessing, drainVars, fileVars, reqVars,
                   tableVars, docs, clock, clusterVars, timeoutVars, embedding, poolOps,
                   clusterTimes, cryptoVars>>

\* close() of either provider: if (!this.db) return; this.db.close(); this.db
\* = null.  MySQLProvider: if (!this.pool) return; await this.pool.end();
\* this.pool = null.
providerClose ==
    /\ ~lifecycle.creating
    /\ dbState' = "closed"
    /\ lastCall' = [op |-> "close", closed |-> dbState = "open"]
    /\ UNCHANGED <<proc, runPc, providerReady, queueProcessing, drainVars, fileVars, reqVars,
                   tableVars, docs, clock, backendVars>>

\* MySQLProvider.initialize() up to its first await: if (this.pool) return;
\* this.pool = mysql.createPool(config); await this.pool.getConnection().
mysqlInitializeEnter ==
    /\ provider = "mysql2"
    /\ IF dbState = "open"
       THEN /\ lastCall' = [op |-> "initialize", opened |-> FALSE, outcome |-> "resolved"]
            /\ UNCHANGED <<dbState, lifecycle>>
       ELSE /\ dbState' = "open"
            /\ lifecycle' = [lifecycle EXCEPT !.creating = TRUE]
            /\ lastCall' = [op |-> "initialize", opened |-> TRUE, outcome |-> "pending"]
    /\ UNCHANGED <<proc, runPc, providerReady, queueProcessing, drainVars, fileVars, reqVars,
                   tableVars, docs, clock, clusterVars, timeoutVars, embedding, poolOps,
                   clusterTimes, cryptoVars>>

\* The rest of MySQLProvider.initialize(): the CREATE TABLE IF NOT EXISTS
\* statements and migrateSchema(), finally conn.release().  An error is
\* thrown to the caller; this.pool stays set.
mysqlInitializeCreate(ok) ==
    /\ provider = "mysql2"
    /\ lifecycle.creating
    /\ lifecycle' = [lifecycle EXCEPT !.creating = FALSE, !.tables = @ \/ ok]
    /\ lastCall' = [op |-> "initialize", opened |-> TRUE,
                    outcome |-> IF ok THEN "resolved" ELSE "rejected"]
    /\ UNCHANGED <<gateVars, drainVars, fileVars, reqVars, tableVars, docs, clock, clusterVars,
                   timeoutVars, embedding, poolOps, clusterTimes, cryptoVars>>

\* An operation of the provider, here addMemory: if (!this.db) throw new
\* Error('Database not initialized'), likewise if (!this.pool); then the
\* INSERT, which needs the table.
providerAddMemory ==
    /\ nextRowId <= MaxRows
    /\ IF dbState # "open"
       THEN /\ lastCall' = [op |-> "addMemory", outcome |-> "Database not initialized"]
            /\ UNCHANGED tableVars
       ELSE IF ~lifecycle.tables
       THEN /\ lastCall' = [op |-> "addMemory", outcome |-> "no such table"]
            /\ UNCHANGED tableVars
       ELSE /\ memories' = addMemory(memories, nextRowId,
                                     [content |-> <<"a">>, tags |-> <<>>, context |-> <<>>,
                                      importance |-> 2], clock, "live", 0, 0)
            /\ nextRowId' = nextRowId + 1
            /\ lastCall' = [op |-> "addMemory", outcome |-> "ok"]
    /\ UNCHANGED <<serverVars, backendVars, docs, clock>>

\* A provider object just constructed, over a store without tables.
LifecycleInit ==
    /\ proc = 1
    /\ runPc = "running"
    /\ dbState = "closed"
    /\ providerReady = FALSE
    /\ queueProcessing = FALSE
    /\ queueExists = FALSE
    /\ queueFile = <<>>
    /\ drainPc = "done"
    /\ drainLines = <<>>
    /\ drainIdx = 0
    /\ processedCount = 0
    /\ drainOutcome = "missing"
    /\ memories = <<>>
    /\ nextRowId = 1
    /\ reqs = [r \in 1..MaxRequests |-> NoRequest]
    /\ nextReq = 1
    /\ docs = <<>>
    /\ clock = 0
    /\ lastCall = NoCall
    /\ provider \in {"better-sqlite3", "mysql2"}
    /\ clusters = {}
    /\ clusterDetails = {}
    /\ deleteClusterPc = NoDeleteCluster
    /\ opPromise = "none"
    /\ timer = "none"
    /\ callerOutcome = "none"
    /\ embedding = <<>>
    /\ poolOps = [o \in 1..MaxOps |-> IdleOp]
    /\ clusterTimes = NoClusterTimes
    /\ privateKey = 0
    /\ metadata = <<>>
    /\ lifecycle = [initPromise |-> "null", tables |-> FALSE, creating |-> FALSE]

LifecycleNext ==
    \/ \E ok \in BOOLEAN : sqliteInitialize(ok)
    \/ mysqlInitializeEnter
    \/ \E ok \in BOOLEAN : mysqlInitializeCreate(ok)
    \/ providerClose
    \/ providerAddMemory
    \/ Tick

LifecycleSpec == LifecycleInit /\ [][LifecycleNext]_vars

\* ------------------------------------------------- the handler and its errors
\* A tool call on the open gate whose awaited withTimeout(...) rejects: with
\* the provider's error (the statement failed, nothing is written), or with
\* the timer's 'Operation timed out'.  The catch of the handler answers with
\* the error.  A call that timed out is not cancelled: the row of an
\* add_memory is written all the same (late), or never.
CallToolRejects(name, content, importance, kind, late) ==
    /\ runPc \notin {"exited"}
    /\ nextReq <= MaxRequests
    /\ Route(providerReady, name) = "dispatch"
    /\ DispatchPc(name, content) = "done"
    /\ nextReq' = nextReq + 1
    /\ reqs' = [reqs EXCEPT ![nextReq] =
                   Settled(name, IF kind = "timeout" THEN "error_timeout" ELSE "error_backend", 0)]
    /\ IF late /\ kind = "timeout" /\ name = "add_memory"
       THEN /\ Len(memories) < MaxMemories
            /\ memories' = DispatchTable(nextReq, name, content, importance)
            /\ nextRowId' = nextRowId + 1
       ELSE UNCHANGED tableVars
    /\ UNCHANGED <<otherVars, gateVars, drainVars, fileVars>>

\* The handler in front of a provider that is initializing: calls arrive
\* before and after the gate opens, and initialize() succeeds, fails or is
\* still pending when its timer fires.
HandlerNext ==
    \/ \E a \in AddMemoryArgs : CallTool("add_memory", a.content, a.importance)
    \/ CallTool("load_all_memory", NoContent, 0)
    \/ \E a \in AddMemoryArgs, kind \in {"timeout", "backend"}, late \in BOOLEAN :
           CallToolRejects("add_memory", a.content, a.importance, kind, late)
    \/ \E kind \in {"timeout", "backend"} :
           CallToolRejects("load_all_memory", NoContent, 0, kind, FALSE)
    \/ \E r \in 1..MaxRequests : handleQueuedAddMemory(r)
    \/ \E r \in 1..MaxRequests : PollWake(r)
    \/ \E ok \in BOOLEAN : providerInitialize(ok)
    \/ runInitFails
    \/ runProviderReady

HandlerSpec == Init /\ [][HandlerNext]_vars

\* ------------------------------------------------------ importance of a call
\* The importance arguments tried: numbers from -MaxImportanceInput to
\* MaxImportanceInput, no importance at all, and a text that is not a number.
MaxImportanceInput == 12
ImportanceInputs ==
    {[kind |-> "missing"], [kind |-> "text"]}
    \cup {[kind |-> "number", value |-> n] : n \in (0 - MaxImportanceInput)..MaxImportanceInput}

\* const { ..., importance = 5, ... } = args, then Number(importance): the
\* default 5 for a missing argument, the number itself, and NaN for a text,
\* which `|| 5` treats as it treats 0 (both are falsy); 0 stands for both.
ImportanceNumber(x) ==
    IF x.kind = "missing" THEN 5
    ELSE IF x.kind = "number" THEN x.value
    ELSE 0

\* An add_memory call on the open gate with the importance x: the row is
\* stored with validImportance.
addMemoryWithImportance(x) ==
    /\ providerReady
    /\ nextRowId <= MaxRows
    /\ memories' = addMemory(memories, nextRowId,
                             [content |-> <<"m">>, tags |-> <<>>, context |-> <<>>,
                              importance |-> ValidImportance(ImportanceNumber(x))],
                             clock, "live", 0, proc)
    /\ nextRowId' = nextRowId + 1
    /\ lastCall' = [op |-> "add_memory", importance |-> x,
                    stored |-> memories'[Len(memories')].importance]
    /\ UNCHANGED <<serverVars, backendVars, docs, clock>>

ImportanceNext ==
    \/ \E x \in ImportanceInputs : addMemoryWithImportance(x)
    \/ Tick

ImportanceSpec == ProviderInit /\ [][ImportanceNext]_vars

\* ------------------------------------------------ connections given back
\* A statement of a call rejects while the call holds its connections: the
\* finally block of the method that ran it releases, the error goes up to
\* the method that called it, whose finally block releases in turn, and the
\* call rejects.  taken: the connections the call held when the statement
\* rejected.  (The statements of migrateSchema are in try/catch blocks
\* of their own, and a refused CREATE TABLE is initCreateTables.)
poolQueryFails(o) ==
    /\ poolOps[o].kind \in NestedCalls \ {"initialize"}
    /\ poolOps[o].pc \in {"query", "inner"}
    /\ poolOps' = [poolOps EXCEPT
                    ![o] = [IdleOp EXCEPT
                               !.held = IF poolOps[o].pc = "inner"
                                        THEN FinallyRelease(FinallyRelease(poolOps[o].held))
                                        ELSE FinallyRelease(poolOps[o].held)]]
    /\ lastCall' = [op |-> poolOps[o].kind, outcome |-> "error",
                    taken |-> poolOps[o].held, held |-> poolOps'[o].held]
    /\ UNCHANGED <<serverVars, tableVars, docs, clock, clusterVars, timeoutVars, embedding, clusterTimes, cryptoVars, lifecycle>>

\* initialize and createCluster, the calls that take a connection inside a
\* connection, each with the paths on which it returns and the paths on
\* which it rejects.
ReleaseNext ==
    \/ \E o \in 1..MaxOps, kind \in {"initialize", "createCluster"}, arg \in 0..1 :
           poolStart(o, kind, arg)
    \/ \E o \in 1..MaxOps : poolGetConnection(o)
    \/ \E o \in 1..MaxOps, createOk \in BOOLEAN : initCreateTables(o, createOk)
    \/ \E o \in 1..MaxOps : createClusterInsert(o)
    \/ \E o \in 1..MaxOps : innerGetConnection(o)
    \/ \E o \in 1..MaxOps, serviceOk \in BOOLEAN,
          failed \in SUBSET {r.id : r \in BackfillSelected} :
           mysqlMigrateSchema(o, serviceOk, failed)
    \/ \E o \in 1..MaxOps : mysqlAddClusterDetail(o)
    \/ \E o \in 1..MaxOps : poolRelease(o)
    \/ \E o \in 1..MaxOps : poolQueryFails(o)

ReleaseSpec == MysqlInit /\ [][ReleaseNext]_vars

\* ------------------------------------------------ add_memory with a cluster
\* getMemoriesByCluster(clusterId): SELECT * FROM memories WHERE clusterId = ?
\* ORDER BY importance DESC -- every order of the rows of the cluster that is
\* descending in importance.
getMemoriesByCluster(table, c) ==
    OrderedBy(table, {i \in DOMAIN table : table[i].clusterId = c})

\* The arguments of an add_memory call that names the cluster c.
ClusterArguments(c) ==
    [content |-> <<"m">>, tags |-> [isArray |-> TRUE, items |-> <<>>],
     context |-> <<>>, importance |-> 5, clusterId |-> c]

\* An add_memory call on the open gate that names a cluster: handleAddMemory
\* takes content, tags, context, importance and metadata from the arguments
\* and passes the entry made of them to provider.addMemory, which stores
\* entry.clusterId || null.
handleAddMemoryWithCluster(c) ==
    /\ providerReady
    /\ nextRowId <= MaxIds
    /\ Len(memories) < MaxRows
    /\ memories' = addMemory(memories, nextRowId, HandledMemory(ClusterArguments(c)),
                             clock, "live", 0, proc)
    /\ nextRowId' = nextRowId + 1
    /\ lastCall' = [op |-> "add_memory", clusterId |-> c, id |-> nextRowId]
    /\ UNCHANGED <<serverVars, backendVars, docs, clock>>

\* Clusters are created, and memories are added through the tool and through
\* the provider, each with the id of a cluster.
ClusterToolNext ==
    \/ createCluster(FALSE)
    \/ \E c \in 1..MaxIds : handleAddMemoryWithCluster(c)
    \/ \E c \in 1..MaxIds : addMemoryWithClusterId(c)
    \/ Tick

ClusterToolSpec == ProviderInit /\ [][ClusterToolNext]_vars

\* ================================================================== claims
Requests == 1..MaxRequests
Range(f) == {f[i] : i \in DOMAIN f}

\* The request r is delivered to the handler in this step.
Arrives(r) == reqs[r].pc = "none" /\ reqs'[r].pc # "none"

\* The lines of the drain's snapshot that are applicable add_memory items.
Applicable == {k \in DOMAIN drainLines : LineApplies(drainLines[k])}

\* The rows the drain of the running process stored for line k.
DrainRows(k) ==
    {i \in DOMAIN memories : /\ memories[i].via = "drain"
                             /\ memories[i].byProc = proc
                             /\ memories[i].src = drainLines[k].id}

DrainCompleted == drainOutcome = "completed" /\ runPc # "exited"

\* The deletes of the two tables by id or forced without a filter.
NamespaceDeleteOptions ==
    {o \in DocDeleteOptions :
        \/ OptionsGiven(o) = 0 /\ o.force
        \/ OptionsGiven(o) = 1 /\ o.id = {1} /\ ~o.force}

\* Every call that writes: the doc calls, the memory calls and the cluster
\* calls of the provider, on tables that hold rows of both kinds.
NamespaceNext ==
    \/ \E m \in {m \in MemorySamples : m.tags = <<>>} : provAddMemory(m)
    \/ \E d \in {d \in DocSamples : d.tags = <<>>} : provAddDoc(d)
    \/ searchMemories(NoSearchOptions, TRUE)
    \/ searchDocs(NoDocSearchOptions, TRUE)
    \/ \E o \in AccessUpdateOptions :
           provUpdateMemories(o, [content |-> {<<"z">>}, importance |-> {}])
    \/ \E o \in AccessUpdateOptions :
           provUpdateDocs(o, [content |-> {<<"z">>}, importance |-> {}])
    \/ \E o \in NamespaceDeleteOptions : provDeleteMemories(o)
    \/ \E o \in NamespaceDeleteOptions : provDeleteDocs(o)
    \/ createCluster(FALSE)
    \/ \E m \in 1..MaxRows, c \in clusters : linkMemoryToCluster(m, c)
    \/ \E m \in 1..MaxRows : unlinkMemoryFromCluster(m)
    \/ \E c \in clusters : deleteCluster(c, TRUE)

NamespaceSpec == ProviderInit /\ [][NamespaceNext]_vars

\* ---------------------------------------------------------------------- C1
\* A delete call that names no id (or ''), no tag (or an empty list), no
\* context, no query, no importance bound and no before-date.
Unfiltered(o) ==
    /\ o.id \subseteq {0}
    /\ o.tags \subseteq {<<>>}
    /\ o.context \subseteq {<<>>}
    /\ o.query \subseteq {<<>>}
    /\ o.importanceLessThan = {}
    /\ o.before = {}

LastDelete == lastCall.op \in {"deleteMemories", "deleteDocs"}
LastTable == IF lastCall.op \in {"deleteMemories", "updateMemories"} THEN memories ELSE docs

\* C1: an unfiltered deleteMemories or deleteDocs without force fails and leaves
\* the table as it was; with force it succeeds, empties the table and returns
\* the number of rows the table held.
C1_UnfilteredDeleteNeedsForce ==
    (LastDelete /\ Unfiltered(lastCall.options)) =>
        IF lastCall.options.force
        THEN /\ lastCall.outcome = "ok"
             /\ LastTable = <<>>
             /\ lastCall.changes = Len(lastCall.before)
        ELSE /\ lastCall.outcome = "error"
             /\ LastTable = lastCall.before

\* A forced unfiltered deleteMemories has just removed both rows of the table.
C1_Witness ==
    /\ lastCall.op = "deleteMemories"
    /\ Unfiltered(lastCall.options)
    /\ lastCall.options.force
    /\ lastCall.changes = 2
    /\ memories = <<>>

C3_QueuedWhileNotReady ==
    [][ \A r \in Requests :
          /\ (Arrives(r) /\ ~providerReady /\ reqs'[r].name = "add_memory") =>
                /\ reqs'[r].pc = "appending"
                /\ memories' = memories
                /\ queueFile' = queueFile
          /\ reqs[r].pc = "appending" =>
                /\ ~providerReady => ENABLED handleQueuedAddMemory(r)
                /\ reqs'[r].pc \in {"appending", "queued", "gone"}
                /\ reqs'[r].pc = "queued" =>
                      /\ memories' = memories
                      /\ queueFile' = queueFile \o
                            << [id |-> r, kind |-> "json", name |-> "add_memory",
                                content |-> reqs[r].content,
                                importance |-> reqs[r].importance] >>
      ]_vars

\* A call was acknowledged "queued" behind an older line while the gate is closed.
C3_Witness ==
    /\ ~providerReady
    /\ \E r \in Requests : reqs[r].pc = "queued"
    /\ Len(queueFile) >= 2
    /\ queueFile[Len(queueFile)].kind = "json"

\* ---------------------------------------------------------------------- C4
\* C4: while providerReady is false a call other than add_memory touches neither
\* the backend nor the queue: it sleeps at most MaxWaitPolls times, goes on to
\* its handler only at a wake-up that finds the gate open, and otherwise ends
\* with 'Database not ready, please retry later' once the wait is used up.
C4_BoundedWaitThenRetry ==
    [][ \A r \in Requests :
          /\ (Arrives(r) /\ ~providerReady /\ reqs'[r].name # "add_memory") =>
                /\ reqs'[r].pc = "polling"
                /\ memories' = memories
                /\ queueFile' = queueFile
          /\ reqs[r].pc = "polling" =>
                /\ reqs[r].polls < MaxWaitPolls
                /\ reqs'[r].pc \in {"polling", "done", "error_notready", "gone"}
                /\ reqs'[r].pc = "done" => providerReady
                /\ reqs'[r].pc = "error_notready" =>
                      /\ ~providerReady
                      /\ reqs'[r].polls = MaxWaitPolls
                      /\ memories' = memories
                /\ (reqs'[r].pc = "polling" /\ reqs'[r].polls # reqs[r].polls) =>
                      /\ ~providerReady
                      /\ memories' = memories
      ]_vars

\* One waiting call was refused after the bounded wait, another went through
\* because the gate opened while it was waiting.
C4_Witness ==
    \E r1, r2 \in Requests :
        /\ reqs[r1].name = "load_all_memory" /\ reqs[r1].pc = "error_notready"
        /\ reqs[r2].name = "load_all_memory" /\ reqs[r2].pc = "done" /\ reqs[r2].polls > 0

\* ---------------------------------------------------------------------- C5
DrainInProgress == drainPc \in {"access", "read", "line", "truncate", "truncated"}

C6_ReplayOnce ==
    \A i, j \in DOMAIN memories :
        ( /\ i # j
          /\ memories[i].via = "drain"
          /\ memories[j].via = "drain" ) => memories[i].src # memories[j].src

\* ---------------------------------------------------------------------- C7
\* C7: when the drain has run to the end of the file, every applicable line was
\* applied, the failing lines notwithstanding, and the file has been emptied:
\* none of the lines the drain read is still in it.
C7_SkipFailuresThenTruncate ==
    DrainCompleted =>
        /\ \A k \in Applicable : DrainRows(k) # {}
        /\ \A k \in DOMAIN drainLines : drainLines[k] \notin Range(queueFile)

C9_GateOnlyOpens ==
    [][ /\ (proc' = proc /\ providerReady) => providerReady'
        /\ proc' # proc => ~providerReady'
      ]_vars

\* The gate was open when the process shut down with requests handled.
C9_Witness ==
    /\ providerReady
    /\ runPc = "exited"
    /\ \E r \in Requests : reqs[r].pc = "gone"

\* --------------------------------------------------------------------- C10
InitFailed == runPc = "failed" /\ drainOutcome # "error"

\* C10: the gate is open only when provider.initialize() has completed (the
\* database is open); when initialize fails or times out, providerReady stays
\* false, no drain starts, and the only next step of run() is shutdown and exit.
C10_GateAfterInitialize ==
    /\ (providerReady /\ runPc # "exited") => dbState = "open"
    /\ InitFailed =>
          /\ ~providerReady
          /\ ~DrainInProgress
          /\ drainOutcome = "none"
          /\ \A i \in DOMAIN memories : memories[i].byProc # proc
          /\ ENABLED shutdown
          /\ ~ENABLED runProviderReady
          /\ ~ENABLED runConnect

\* initialize() timed out with a queued line on disk, and the process is
\* shutting down without having opened the gate.
C10_Witness ==
    /\ InitFailed
    /\ dbState = "pending"
    /\ \E k \in DOMAIN queueFile : queueFile[k].kind = "json"

\* --------------------------------------------------------------------- C11
DeleteClusterDone == lastCall.op = "deleteCluster" /\ lastCall.outcome = "ok"

\* What C11 asks of a completed deleteCluster(C).
DetachedNotDeleted ==
    /\ \A i \in DOMAIN lastCall.before :
          lastCall.before[i].clusterId = lastCall.clusterId =>
             \E j \in DOMAIN memories :
                memories[j] = [lastCall.before[i] EXCEPT !.clusterId = 0]
    /\ lastCall.clusterId \notin clusters
    /\ \A d \in clusterDetails : d.clusterId # lastCall.clusterId

\* C11: after deleteCluster(C) every memory that referenced C still exists,
\* unchanged but for its clusterId, which is NULL; the cluster row is gone and
\* no cluster_details row of C is left. Stated for both SQLite providers.
C11_DeleteClusterDetaches == DeleteClusterDone => DetachedNotDeleted

\* The same for the better-sqlite3 provider alone.
BetterSqlite3DeleteClusterDetaches ==
    (provider = "better-sqlite3" /\ DeleteClusterDone) => DetachedNotDeleted

\* --------------------------------------------------------------------- C12
\* What C12 asks of every state: a deleteCluster(C) that has not succeeded
\* leaves the memories as they were with C in place, and one that has
\* succeeded leaves no memory referencing C.
AllOrNothing ==
    /\ (lastCall.op = "deleteCluster" /\ lastCall.outcome # "ok") =>
          /\ memories = lastCall.before
          /\ lastCall.clusterId \in clusters
    /\ DeleteClusterDone =>
          /\ lastCall.clusterId \notin clusters
          /\ \A i \in DOMAIN memories : memories[i].clusterId # lastCall.clusterId

\* C12: deleteCluster is atomic: no state shows the memories detached from C
\* while C still exists, or C gone while a memory references it. Stated for
\* both SQLite providers.
C12_DeleteClusterAtomic == AllOrNothing

\* The same for the better-sqlite3 provider alone.
BetterSqlite3DeleteClusterAtomic == provider = "better-sqlite3" => AllOrNothing

\* A linked memory was detached by a deleteCluster that succeeded.
ClusterDeletedWitness ==
    /\ DeleteClusterDone
    /\ \E i \in DOMAIN lastCall.before : lastCall.before[i].clusterId = lastCall.clusterId

\* --------------------------------------------------------------------- C13
\* C13: every stored memory has an importance from 1 to 10, whether a live
\* add_memory or the drain of a queued add_memory stored it.
C13_ImportanceInRange ==
    \A i \in DOMAIN memories : memories[i].importance \in 1..10

\* --------------------------------------------------------------------- C14
LastUpdate == lastCall.op \in {"updateMemories", "updateDocs"}

\* The fields of the update object that the table of the call has.
UpdateFields ==
    IF lastCall.op = "updateMemories"
    THEN {f \in {"content", "importance"} : lastCall.update[f] # {}}
    ELSE {f \in {"content"} : lastCall.update[f] # {}}

\* The row matches the call: it has the id when a non-empty id is given,
\* otherwise it passes every filter that is given and not empty.
Matches(row, o) ==
    IF \E v \in o.id : v # 0
    THEN row.id \in o.id
    ELSE /\ \A q \in o.query : Contains(row.content, q)
         /\ \A t \in o.tags : t = <<>> \/ \E k \in DOMAIN t : t[k] \in {row.tags[n] : n \in DOMAIN row.tags}
         /\ \A c \in o.context : Contains(row.context, c)
         /\ \A n \in o.importanceLessThan : row.importance < n
         /\ \A b \in o.before : row.timestamp < b

\* The row as the update leaves it.
Updated(row, u) ==
    [f \in DOMAIN row |->
        IF f \in UpdateFields THEN CHOOSE v \in u[f] : TRUE ELSE row[f]]

CallWritten ==
    \E i \in DOMAIN memories : memories[i].via = "live" /\ memories[i].src = nextReq - 1

SearchDone == lastCall.op \in {"searchDocs", "searchMemories"} /\ lastCall.outcome = "ok"
SearchedTable == IF lastCall.op = "searchMemories" THEN memories ELSE docs

\* The row is the row b read by the search, counted once more and its
\* lastAccessed (lastFetched for a doc) set to the time of the search.
Accessed(row, b) ==
    IF lastCall.op = "searchMemories"
    THEN row = [b EXCEPT !.accessCount = @ + 1, !.lastAccessed = lastCall.now]
    ELSE row = [b EXCEPT !.accessCount = @ + 1, !.lastFetched = lastCall.now]

AccessRecorded ==
    /\ Len(SearchedTable) = Len(lastCall.before)
    /\ \A i \in DOMAIN lastCall.before :
           IF lastCall.before[i].id \in lastCall.returned
           THEN Accessed(SearchedTable[i], lastCall.before[i])
           ELSE SearchedTable[i] = lastCall.before[i]

\* C16: after a successful searchMemories or searchDocs, of either backend,
\* every returned row has its accessCount increased by exactly 1 and its
\* lastAccessed (lastFetched) refreshed, and no other row has changed; a
\* search whose UPDATE of the counts was refused by the database has
\* succeeded all the same, and is not held to have counted.
C16_SearchCountsAccess == (SearchDone /\ ~lastCall.updateFailed) => AccessRecorded

\* What SQLiteProvider does: the returned rows are counted, or, the error of
\* the UPDATE being caught, the table is as the search read it.
SqliteSearchCountsAccess ==
    (SearchDone /\ provider = "better-sqlite3") =>
        IF lastCall.updateFailed THEN SearchedTable = lastCall.before ELSE AccessRecorded
SqliteSearchCounted ==
    /\ SearchDone /\ provider = "better-sqlite3"
    /\ lastCall.returned # {} /\ AccessRecorded
    /\ \E i \in DOMAIN lastCall.before : lastCall.before[i].id \notin lastCall.returned

\* A searchDocs call has returned, and nothing was called since.
SearchDocsDone == lastCall.op = "searchDocs" /\ lastCall.outcome = "ok"

\* C19: on the same docs and the same options, searchDocs of the SQLite
\* provider and of the MySQL provider return results of the same shape (the
\* fields entries, totalFound, searchTime of DocSearchResult) and the same
\* rows in the same order.
C19_SearchDocsParity ==
    SearchDocsDone =>
        /\ DOMAIN lastCall.result = {"entries", "totalFound", "searchTime"}
        /\ SqliteSearchDocsRows(lastCall.before, lastCall.options)
               = MysqlSearchDocsRows(lastCall.before, lastCall.options)

\* Where the two providers do agree: the rows of a search without options.
SearchDocsRowsAgreeWithoutOptions ==
    (SearchDocsDone /\ lastCall.options = NoDocSearchOptions) =>
        SqliteSearchDocsRows(lastCall.before, lastCall.options)
            = MysqlSearchDocsRows(lastCall.before, lastCall.options)

\* The rows differ, apart from the fields of the result.
SearchDocsRowsDiffer ==
    /\ SearchDocsDone
    /\ SqliteSearchDocsRows(lastCall.before, lastCall.options)
           # MysqlSearchDocsRows(lastCall.before, lastCall.options)

\* The accessCount of the row with this id, -1 when the table has no such row.
CountOf(table, id) ==
    IF \E i \in DOMAIN table : table[i].id = id
    THEN (CHOOSE r \in Range(table) : r.id = id).accessCount
    ELSE -1

\* A step leaves every row of the table with a count at least as high, and
\* gives a new row the count 0.
CountsKept(before, after) ==
    \A i \in DOMAIN after :
        IF CountOf(before, after[i].id) = -1
        THEN after[i].accessCount = 0
        ELSE after[i].accessCount >= CountOf(before, after[i].id)

\* C17: the accessCount of a memory or a doc is 0 at creation, and no step
\* (search, update, link, unlink, cluster delete) lowers or resets it.
C17_AccessCountNeverDecreases ==
    [][CountsKept(memories, memories') /\ CountsKept(docs, docs')]_vars

\* A memory that searches have counted twice has then been updated, and has
\* its count still.
C17_Witness ==
    /\ lastCall.op = "updateMemories" /\ lastCall.outcome = "ok"
    /\ \E i \in DOMAIN memories :
           /\ memories[i].accessCount = 2
           /\ memories[i] # lastCall.before[i]

\* 'not implemented', in any case of the letters, is part of the message.
LowerCase(c) ==
    CASE c = "N" -> "n" [] c = "M" -> "m" [] c = "I" -> "i" [] OTHER -> c
ToLowerCase(s) == [k \in DOMAIN s |-> LowerCase(s[k])]
NotImplementedText ==
    <<"n", "o", "t", " ", "i", "m", "p", "l", "e", "m", "e", "n", "t", "e", "d">>
IsNotImplemented(message) == Contains(ToLowerCase(message), NotImplementedText)

MigrationDone == lastCall.op = "migrateSchema"
FullyBackfilled(column, ids) == ids \subseteq DOMAIN column

\* C20: a migration pass writes only rows whose embedding was null and leaves
\* every embedding that was there as it was; on a dataset in which every
\* memory and doc has an embedding it writes no row, so that a second pass
\* leaves the data as the first one did.
C20_BackfillIdempotent ==
    MigrationDone =>
        /\ lastCall.writes \cap DOMAIN lastCall.before = {}
        /\ \A id \in DOMAIN lastCall.before :
               id \in DOMAIN embedding /\ embedding[id] = lastCall.before[id]
        /\ FullyBackfilled(lastCall.before, lastCall.rows) =>
               (lastCall.writes = {} /\ embedding = lastCall.before)

\* A pass, its embedding service available, has run over a dataset of a
\* memory and a doc that both had an embedding, one of them written by an
\* earlier pass.
C20_Witness ==
    /\ MigrationDone /\ lastCall.service
    /\ Len(memories) > 0 /\ Len(docs) > 0
    /\ FullyBackfilled(lastCall.before, lastCall.rows)
    /\ lastCall.writes = {}

\* A pass has backfilled one row and left alone one that had an embedding.
BackfillWroteNullOnly ==
    /\ MigrationDone
    /\ lastCall.writes # {}
    /\ DOMAIN lastCall.before # {}

\* The ids of the rows that had no embedding when the pass began.
NullBefore == lastCall.rows \ DOMAIN lastCall.before

\* C21: in a backfill pass, a row whose embedding or UPDATE fails keeps its
\* null embedding, every other row that had a null embedding is given one,
\* and initialize completes.
C21_BackfillSkipsFailedRow ==
    (MigrationDone /\ lastCall.service) =>
        /\ lastCall.outcome = "ok"
        /\ \A id \in NullBefore :
               IF id \in lastCall.failed
               THEN id \notin DOMAIN embedding
               ELSE id \in DOMAIN embedding

\* A pass has failed on the row that came first and has backfilled a later one.
C21_Witness ==
    /\ MigrationDone /\ lastCall.service /\ lastCall.outcome = "ok"
    /\ \E id \in NullBefore \cap lastCall.failed :
           \E other \in NullBefore \ lastCall.failed :
               id < other /\ id \notin DOMAIN embedding /\ other \in DOMAIN embedding

\* A call that holds a connection waits for a second one.
WaitsHolding(o) == poolOps[o].pc = "getSecond"
\* A call holds a connection and will release it without taking another.
WillRelease(o) == poolOps[o].held > 0 /\ ~WaitsHolding(o)

\* C30: a call that waits for a second connection while it holds one can
\* still obtain it: a connection is free, or some call that holds one is
\* on its way to release it.
C30_NoPoolDeadlock ==
    \A o \in 1..MaxOps :
        WaitsHolding(o) =>
            (FreeConnections > 0 \/ \E q \in 1..MaxOps : WillRelease(q))

\* C22: once initialize has returned, a migration pass whose embedding
\* service did not start has written
\* no row and has left the embedding column as it was, has given back its
\* connections (none is in use once no call is in progress), and initialize
\* has returned normally; a pass whose service
\* started and whose rows did not fail leaves no row without an embedding.
C22_ServiceUnavailableStopsBackfill ==
    (MigrationDone /\ ~InitializeRunning) =>
        /\ ~lastCall.service =>
               /\ lastCall.writes = {} /\ embedding = lastCall.before
               /\ lastCall.outcome = "ok"
               /\ lastCall.held = 0 /\ (PoolQuiet => FreeConnections = PoolSize)
        /\ (lastCall.service /\ lastCall.failed \cap lastCall.rows = {}) =>
               lastCall.rows \subseteq DOMAIN embedding

\* A pass without the embedding service has run over rows without
\* embedding, and has left them so.
C22_Witness ==
    /\ MigrationDone /\ ~InitializeRunning /\ ~lastCall.service /\ lastCall.outcome = "ok"
    /\ NullBefore # {} /\ NullBefore \cap DOMAIN embedding = {}
    /\ lastCall.held = 0 /\ FreeConnections = PoolSize

\* A later pass has backfilled every row that was left without embedding.
LaterPassBackfills ==
    /\ MigrationDone /\ ~InitializeRunning /\ lastCall.service
    /\ NullBefore # {} /\ lastCall.writes = NullBefore

\* A link or an unlink has returned, and nothing was called since.
LinkDone ==
    /\ lastCall.op \in {"linkMemoryToCluster", "unlinkMemoryFromCluster"}
    /\ lastCall.outcome = "ok"

\* C23: linkMemoryToCluster and unlinkMemoryFromCluster change the clusterId
\* of the memory they name and nothing else: the memory then references the
\* one cluster given (none after an unlink), whatever it referenced before;
\* the table has the same rows, every other field and every other row are
\* as they were, and so are the clusters and the cluster details.
C23_LinkSetsReferenceOnly ==
    LinkDone =>
        /\ Len(memories) = Len(lastCall.before)
        /\ \A i \in DOMAIN lastCall.before :
               IF lastCall.before[i].id = lastCall.memoryId
               THEN memories[i] = [lastCall.before[i] EXCEPT !.clusterId = lastCall.clusterId]
               ELSE memories[i] = lastCall.before[i]
        /\ clusters = lastCall.clusters
        /\ clusterDetails = lastCall.details

\* A memory linked to a cluster has been linked to another one.
C23_Witness ==
    /\ lastCall.op = "linkMemoryToCluster" /\ lastCall.outcome = "ok"
    /\ \E i \in DOMAIN memories :
           /\ memories[i].id = lastCall.memoryId
           /\ lastCall.before[i].clusterId # 0
           /\ lastCall.before[i].clusterId # lastCall.clusterId
           /\ memories[i].clusterId = lastCall.clusterId
           /\ clusterDetails # {}

\* A linked memory has been unlinked.
UnlinkedWitness ==
    /\ lastCall.op = "unlinkMemoryFromCluster"
    /\ \E i \in DOMAIN memories :
           /\ memories[i].id = lastCall.memoryId
           /\ lastCall.before[i].clusterId # 0
           /\ memories[i].clusterId = 0

\* addClusterDetail or updateClusterDetail has returned its detail, for a
\* cluster that exists, and nothing was called since.
DetailWritten ==
    /\ lastCall.op \in {"addClusterDetail", "updateClusterDetail"}
    /\ lastCall.outcome = "ok"
    /\ lastCall.clusterId \in DOMAIN lastCall.before.cluster

\* The parent's updatedAt is not earlier than the detail's timestamps nor
\* than its own previous value.
ParentRefreshed ==
    LET parent == clusterTimes.cluster[lastCall.clusterId]
        detail == clusterTimes.detail[lastCall.detailId]
    IN /\ parent >= detail.createdAt
       /\ parent >= detail.updatedAt
       /\ parent >= lastCall.before.cluster[lastCall.clusterId]

\* C24: after addClusterDetail or a successful updateClusterDetail returns,
\* the parent cluster's updatedAt is not earlier than the detail's own
\* createdAt and updatedAt, and not earlier than its previous value.
C24_DetailRefreshesParent == DetailWritten => ParentRefreshed

\* The same for the calls whose UPDATE of details_clusters did not fail.
RefreshedUnlessTimestampFailed ==
    (DetailWritten /\ ~lastCall.timestampFailed) => ParentRefreshed

\* A detail was written at a later time than its parent, and the parent moved.
RefreshedLater ==
    /\ DetailWritten /\ ~lastCall.timestampFailed
    /\ clusterTimes.cluster[lastCall.clusterId] > lastCall.before.cluster[lastCall.clusterId]

\* The calls on docs, and the calls on memories and clusters.
DocOps == {"addDoc", "searchDocs", "updateDocs", "deleteDocs"}
MemoryOps ==
    {"addMemory", "searchMemories", "updateMemories", "deleteMemories", "createCluster",
     "linkMemoryToCluster", "unlinkMemoryFromCluster", "deleteCluster"}

\* C25: memories and docs are separate namespaces.  A step of a doc call
\* (addDoc, searchDocs, updateDocs, deleteDocs, the forced unfiltered
\* deleteDocs included) leaves every memory row and every cluster as it was,
\* and a step of a memory or cluster call leaves every doc row as it was.
C25_SeparateNamespaces ==
    [][/\ lastCall'.op \in DocOps \cup MemoryOps
       /\ lastCall'.op \in DocOps => memories' = memories /\ clusters' = clusters
       /\ lastCall'.op \in MemoryOps => docs' = docs]_vars

\* A forced unfiltered deleteDocs has emptied the docs table beside memories.
C25_Witness ==
    /\ lastCall.op = "deleteDocs" /\ lastCall.outcome = "ok"
    /\ OptionsGiven(lastCall.options) = 0 /\ lastCall.options.force
    /\ lastCall.before # <<>> /\ docs = <<>>
    /\ memories # <<>>

\* A forced unfiltered deleteMemories has emptied the memories table beside docs.
MemoriesDeletedBesideDocs ==
    /\ lastCall.op = "deleteMemories" /\ lastCall.outcome = "ok"
    /\ OptionsGiven(lastCall.options) = 0 /\ lastCall.options.force
    /\ lastCall.before # <<>> /\ memories = <<>>
    /\ docs # <<>>

\* decryptContent has returned to a read path.
Decrypted == lastCall.op = "decryptContent"

\* C27: decryptContent never raises.  When the record is flagged and the
\* key is missing or the stored envelope is corrupt, the read still returns,
\* with the raw stored value.
C27_DecryptNeverRaises ==
    Decrypted =>
        /\ lastCall.outcome = "ok"
        /\ (lastCall.record.encrypted /\ DecryptFails(lastCall.record, lastCall.key)) =>
               lastCall.value = lastCall.record.content

\* A flagged record with a corrupt envelope was read with the key loaded.
C27_Witness ==
    /\ Decrypted /\ lastCall.record.encrypted
    /\ lastCall.key # 0 /\ ~WellFormed(lastCall.record.content)
    /\ lastCall.value = lastCall.record.content

\* A flagged record with a sound envelope was read without the key.
ReadWithoutKey ==
    /\ Decrypted /\ lastCall.record.encrypted
    /\ lastCall.key = 0 /\ WellFormed(lastCall.record.content)
    /\ lastCall.value = lastCall.record.content

\* Every plaintext with every envelope encryptContent makes of it.
Envelopes ==
    {[plaintext |-> p, record |-> encryptContent(p, k)] : p \in Plaintexts, k \in SymmetricKeys}

\* C28: with the key pair loaded, decryptContent of the envelope that
\* encryptContent made of a plaintext p is p, for every p and every key
\* drawn by the call; and decryptContent of a record whose flag is false or
\* absent is its content, unchanged.
C28_EncryptionRoundTrip ==
    Decrypted =>
        /\ \A e \in Envelopes :
               (lastCall.key # 0 /\ lastCall.record = e.record) => lastCall.value = e.plaintext
        /\ ~lastCall.record.encrypted => lastCall.value = lastCall.record.content

\* A plaintext of full length, written through encryptContent, came back.
C28_Witness ==
    /\ Decrypted /\ lastCall.key # 0
    /\ \E e \in Envelopes :
           /\ Len(e.plaintext) = MaxLen
           /\ lastCall.record = e.record
           /\ lastCall.record.content # e.plaintext
           /\ lastCall.value = e.plaintext

\* A record without the flag whose content looks like an envelope came back as stored.
UnflaggedReturnedUnchanged ==
    /\ Decrypted /\ ~lastCall.record.encrypted
    /\ WellFormed(lastCall.record.content)
    /\ lastCall.value = lastCall.record.content

UpdatedEncrypted ==
    /\ lastCall.op = "updateMemories" /\ lastCall.outcome = "ok"
    /\ Given(lastCall.update.content)
    /\ \E i \in DOMAIN memories :
           /\ memories[i].id = lastCall.id
           /\ WellFormed(memories[i].content) /\ Encrypted(lastCall.id)

\* A queued add was drained into an encrypted row beside a plaintext row.
DrainedEncrypted ==
    /\ lastCall.op = "drainQueue"
    /\ \E i \in DOMAIN memories : memories[i].via = "drain" /\ Encrypted(memories[i].id)
    /\ \E i \in DOMAIN memories : ~Encrypted(memories[i].id)

LastDeleteMemoryCall == lastCall.op = "delete_memory"

\* C31: a delete_memory tool call with force = true and no filter is answered
\* without an error, leaves the memories table empty and reports the number of
\* rows the table held.
C31_ForcedDeleteAllAllowed ==
    (LastDeleteMemoryCall /\ Unfiltered(lastCall.args) /\ lastCall.args.force) =>
        /\ ~lastCall.isError
        /\ memories = <<>>
        /\ lastCall.text = DeletedText(Len(lastCall.before))

\* What the handler does instead: every delete_memory call without a filter is
\* answered with an error and deletes nothing, whatever its force.
UnfilteredToolDeleteRefused ==
    (LastDeleteMemoryCall /\ Unfiltered(lastCall.args)) =>
        lastCall.isError /\ memories = lastCall.before

\* A forced unfiltered delete_memory call was refused with two rows stored.
ForcedToolDeleteRefused ==
    /\ LastDeleteMemoryCall
    /\ Unfiltered(lastCall.args)
    /\ lastCall.args.force
    /\ lastCall.isError
    /\ Len(memories) = 2

\* --------------------------------------------------------------------- C32
Replayed == lastCall.op = "drainQueue"

\* What handleAddMemory does with the same arguments: whether it stores a
\* row, and the fields of the row.
HandledLive(args) ==
    IF InvalidArguments(args) THEN [stored |-> FALSE]
    ELSE [stored |-> TRUE,
          row |-> StoredFields(addMemory(<<>>, 1, HandledMemory(args), 0, "live", 0, 0)[1])]

\* C32: the drain's replay of a queued add_memory rejects the call exactly when
\* handleAddMemory rejects it, and otherwise stores the row handleAddMemory
\* stores: trimmed content and context, blank tags removed, importance in 1..10.
C32_ReplayStoresAsLive ==
    Replayed => [stored |-> lastCall.stored,
                 row |-> IF lastCall.stored THEN lastCall.row ELSE <<>>]
                = [stored |-> HandledLive(lastCall.args).stored,
                   row |-> IF HandledLive(lastCall.args).stored
                           THEN HandledLive(lastCall.args).row ELSE <<>>]

\* Arguments that are already in the form the live handler stores.
Normalised(args) ==
    /\ ~InvalidArguments(args)
    /\ HandledMemory(args) = [content |-> args.content, tags |-> args.tags.items,
                              context |-> args.context, importance |-> args.importance]

\* The replay and the live handler agree on the calls that need no
\* normalisation, and on the call without content.
ReplayAgreesOnNormalised ==
    (Replayed /\ (Normalised(lastCall.args) \/ lastCall.args.content = NoContent)) =>
        C32_ReplayStoresAsLive

\* A replayed call stored a padded content that the live handler trims.
ReplayStoredUntrimmed ==
    /\ Replayed
    /\ lastCall.stored
    /\ lastCall.row.content = <<" ", "m", " ">>
    /\ HandledLive(lastCall.args).row.content = <<"m">>

\* A plain call was replayed and stored as the live handler stores it.
ReplayedPlain ==
    /\ Replayed
    /\ lastCall.args = PlainArguments
    /\ lastCall.stored
    /\ lastCall.row = HandledLive(PlainArguments).row

\* --------------------------------------------------------------------- C33
\* Every reference of the tables names a row of details_clusters.
MemoriesReferenceClusters == \A i \in DOMAIN memories : memories[i].clusterId \in clusters \cup {0}
DetailsReferenceClusters == \A d \in clusterDetails : d.clusterId \in clusters

\* C33: in every reachable state, on every provider, the clusterId of each
\* memory is NULL or the id of a row of details_clusters, and the clusterId
\* of each row of cluster_details is the id of a row of details_clusters.
C33_ReferentialIntegrity == MemoriesReferenceClusters /\ DetailsReferenceClusters

\* The provider that enforces its foreign keys keeps the property.
BetterSqlite3ReferentialIntegrity ==
    provider = "better-sqlite3" => C33_ReferentialIntegrity

\* The MySQL provider holds a memory and a detail of clusters that never existed.
MysqlDanglingReferences ==
    /\ provider = "mysql2"
    /\ clusters = {}
    /\ \E i \in DOMAIN memories : memories[i].clusterId # 0
    /\ clusterDetails # {}

\* The better-sqlite3 provider refused a memory for a missing cluster.
BetterSqlite3RefusedReference ==
    /\ provider = "better-sqlite3"
    /\ lastCall.op = "addMemory"
    /\ lastCall.outcome = "error"

\* --------------------------------------------------------------------- C34
\* q occurs in s, character for character.
Substring(s, q) == \E i \in 0..(Len(s) - Len(q)) : SubSeq(s, i + 1, i + Len(q)) = q

\* The row satisfies every filter the options supply (a filter that is empty
\* or zero counts as not supplied).
SatisfiesFilters(row, o) ==
    /\ StrGiven(o.query) => \E q \in o.query : Substring(row.content, q)
    /\ TagsGiven(o.tags) =>
           \E t \in o.tags : \E k \in DOMAIN t :
               Substring(JsonStringify(row.tags), JsonString(t[k]))
    /\ StrGiven(o.contextFilter) => \E c \in o.contextFilter : Substring(row.context, c)
    /\ \A n \in o.importanceThreshold : n # 0 => row.importance >= n

\* The results the statement allows for a table: the satisfying rows in an
\* order sorted by the requested key and direction, cut to the limit.
ExactResults(table, o) ==
    { IF \E n \in o.limit : n # 0 THEN Limit(rows, CHOOSE n \in o.limit : TRUE) ELSE rows :
      rows \in OrderBy(table, {i \in DOMAIN table : SatisfiesFilters(table[i], o)},
                       IF o.sortBy = {} THEN "timestamp" ELSE CHOOSE col \in o.sortBy : TRUE,
                       IF o.sortOrder = {"asc"} THEN "ASC" ELSE "DESC") }

LastSearchMemories == lastCall.op = "searchMemories" /\ lastCall.outcome = "ok"

\* C34: the entries searchMemories returns are the memories that satisfy every
\* supplied filter, sorted by the requested key and direction (timestamp,
\* descending, by default) and cut to the limit; totalFound is their number.
C34_SearchReturnsExactlyMatches ==
    LastSearchMemories =>
        /\ lastCall.result.entries \in ExactResults(lastCall.before, lastCall.options)
        /\ lastCall.result.totalFound = Len(lastCall.result.entries)

\* A query of plain lower-case letters, over contents in lower case.
PlainQuery(o) ==
    \A q \in o.query : \A j \in DOMAIN q : q[j] \notin {"%", "_", "A", "B"}
LowerCaseContents(table) ==
    \A i \in DOMAIN table : \A j \in DOMAIN table[i].content :
        table[i].content[j] \notin {"A", "B"}

\* Where LIKE and the substring test coincide the result is exact.
SearchExactOnPlainQueries ==
    (LastSearchMemories /\ PlainQuery(lastCall.options)
        /\ LowerCaseContents(lastCall.before)) => C34_SearchReturnsExactlyMatches

\* The query '%' returned a memory although no content holds a '%'.
WildcardQueryMatched ==
    /\ LastSearchMemories
    /\ lastCall.options.query = {<<"%">>}
    /\ lastCall.result.totalFound = 2

\* Two memories came back sorted by importance, ascending, against the order
\* of their insertion.
SortedByImportance ==
    /\ LastSearchMemories
    /\ lastCall.options.sortBy = {"importance"} /\ lastCall.options.sortOrder = {"asc"}
    /\ Len(lastCall.result.entries) = 2
    /\ lastCall.result.entries[1].id > lastCall.result.entries[2].id

\* --------------------------------------------------------------------- C35
InitializeCompleted == lastCall.op = "initialize" /\ lastCall.outcome = "resolved"
OperationDone == lastCall.op = "addMemory"

\* C35: when a call of initialize() has completed, the store is open and its
\* tables exist, whether the call was the first, a repeated or a concurrent
\* one, or one made after close(); an operation on an open store succeeds, and
\* an operation after close() fails with 'Database not initialized'.
C35_UsableBetweenInitializeAndClose ==
    /\ InitializeCompleted => (dbState = "open" /\ lifecycle.tables)
    /\ OperationDone =>
           lastCall.outcome = IF dbState = "open" THEN "ok" ELSE "Database not initialized"

\* The parts that hold: an operation on a closed provider fails with
\* 'Database not initialized', and the call of initialize() that opened the
\* store completes with the store open and the tables made.
ClosedProviderRefuses ==
    (OperationDone /\ dbState # "open") => lastCall.outcome = "Database not initialized"
OpeningInitializeOpens ==
    (InitializeCompleted /\ lastCall.opened) => (dbState = "open" /\ lifecycle.tables)

\* initialize() of the SQLite provider completed after a close() and the
\* store is still closed.
SqliteStaysClosed ==
    /\ provider = "better-sqlite3"
    /\ InitializeCompleted
    /\ dbState = "closed"
    /\ Len(memories) = 1

\* A second initialize() of the MySQL provider completed before the tables exist.
MysqlCompletedEarly ==
    /\ provider = "mysql2"
    /\ InitializeCompleted
    /\ ~lifecycle.tables

\* The MySQL provider was closed and initialized again, and stored a second row.
MysqlReopened ==
    /\ provider = "mysql2"
    /\ OperationDone /\ lastCall.outcome = "ok"
    /\ Len(memories) = 2
    /\ clock = 1

\* --------------------------------------------------------------------- C36
\* The memory named by the last link or unlink call, as it was before the call.
NamedMemory == {lastCall.before[i] : i \in {k \in DOMAIN lastCall.before :
                                               lastCall.before[k].id = lastCall.memoryId}}

\* C36: a link call answers 'Memory linked to cluster' exactly when the memory
\* and the cluster both exist, and otherwise answers 'Memory or cluster not
\* found' and leaves the table as it was; an unlink call answers 'Memory
\* unlinked from cluster' exactly when the memory exists and was linked, and
\* otherwise 'Memory not found or not linked'.
C36_LinkReportsWhatExists ==
    /\ lastCall.op = "linkMemoryToCluster" =>
           IF NamedMemory # {} /\ lastCall.clusterId \in lastCall.clusters
           THEN lastCall.text = "Memory linked to cluster"
           ELSE lastCall.text = "Memory or cluster not found" /\ memories = lastCall.before
    /\ lastCall.op = "unlinkMemoryFromCluster" =>
           IF \E r \in NamedMemory : r.clusterId # 0
           THEN lastCall.text = "Memory unlinked from cluster"
           ELSE lastCall.text = "Memory not found or not linked"

\* What the two calls report: whether a memory has the id.
LinkReportsMemoryOnly ==
    /\ (lastCall.op = "linkMemoryToCluster" /\ lastCall.outcome = "ok") =>
           lastCall.text = LinkText(NamedMemory # {})
    /\ lastCall.op = "unlinkMemoryFromCluster" =>
           lastCall.text = UnlinkText(NamedMemory # {})

\* An unlink of a memory that was not linked answered 'Memory unlinked from cluster'.
UnlinkOfUnlinkedReportsSuccess ==
    /\ lastCall.op = "unlinkMemoryFromCluster"
    /\ \E r \in NamedMemory : r.clusterId = 0
    /\ lastCall.text = "Memory unlinked from cluster"

\* A link to a cluster that does not exist failed on the foreign key, on the
\* provider that enforces it.
LinkToMissingClusterThrows ==
    /\ lastCall.op = "linkMemoryToCluster"
    /\ lastCall.outcome = "error"
    /\ provider = "better-sqlite3"

\* A link of a memory that does not exist answered 'Memory or cluster not found'.
LinkOfMissingMemoryReported ==
    /\ lastCall.op = "linkMemoryToCluster"
    /\ NamedMemory = {}
    /\ lastCall.text = "Memory or cluster not found"
    /\ Len(memories) = 1

\* --------------------------------------------------------------------- C37
\* The answers of the handler's catch block.
ErrorResponses == {"error_invalid", "error_notready", "error_timeout", "error_backend"}

\* The request r is answered with an error in this step.
AnsweredWithError(r) == reqs[r].pc \notin ErrorResponses /\ reqs'[r].pc \in ErrorResponses

\* C37: no tool call ends with an exception thrown out of the handler; a call
\* that fails on validation, on the gate, on the timeout or in the backend is
\* answered with an error response, and the step that answers it leaves
\* providerReady and the queue file as they were.
C37_HandlerNeverThrows ==
    [][\A r \in Requests :
          /\ reqs'[r].pc # "thrown"
          /\ AnsweredWithError(r) =>
                 (providerReady' = providerReady /\ queueFile' = queueFile)]_vars

\* Two calls have been answered with errors of different kinds, one of them
\* after the bounded wait at the closed gate.
C37_Witness ==
    /\ \E r \in Requests : reqs[r].pc = "error_notready"
    /\ \E r \in Requests : reqs[r].pc \in {"error_invalid", "error_timeout", "error_backend"}

\* Each kind of error has been answered.
TimeoutAnswered == \E r \in Requests : reqs[r].pc = "error_timeout" /\ Len(memories) = 1
BackendErrorAnswered == \E r \in Requests : reqs[r].pc = "error_backend"
InvalidAnswered == \E r \in Requests : reqs[r].pc = "error_invalid"

\* --------------------------------------------------------------------- C38
AddedWithImportance == lastCall.op = "add_memory" /\ "importance" \in DOMAIN lastCall

ImportanceClampedExceptZero ==
    AddedWithImportance =>
        /\ lastCall.stored \in 1..10
        /\ lastCall.stored =
               IF lastCall.importance.kind # "number" THEN 5
               ELSE IF lastCall.importance.value = 0 THEN 5
               ELSE IF lastCall.importance.value > 10 THEN 10
               ELSE IF lastCall.importance.value < 1 THEN 1
               ELSE lastCall.importance.value

\* A call with importance 0 was stored with importance 5.
ZeroStoredAsDefault ==
    /\ AddedWithImportance
    /\ lastCall.importance = [kind |-> "number", value |-> 0]
    /\ lastCall.stored = 5

\* Calls with importance -1 and 11 were stored with 1 and 10.
OutOfRangeClamped ==
    /\ AddedWithImportance
    /\ lastCall.importance = [kind |-> "number", value |-> 11]
    /\ Len(memories) = 2
    /\ memories[1].importance = 1
    /\ memories[2].importance = 10


\* A call of the pool has returned or rejected, and nothing was called since.
PoolCallDone == lastCall.op \in NestedCalls \cup {"migrateSchema"} /\ "held" \in DOMAIN lastCall

\* C39: every connection taken from the pool is released exactly once on
\* every path, success or error: a call holds no more connections than it
\* took and never fewer than none, a call that has returned or rejected
\* holds none, and once no call is in progress no connection is in use.
C39_ConnectionsReleased ==
    /\ \A o \in 1..MaxOps :
           /\ poolOps[o].held \in 0..2
           /\ poolOps[o].pc \in {"idle", "getConnection"} => poolOps[o].held = 0
    /\ PoolCallDone => lastCall.held = 0
    /\ PoolQuiet => FreeConnections = PoolSize /\ HeldBy(1..MaxOps) = 0

\* A call that held two connections has rejected, and the pool is whole.
C39_Witness ==
    /\ PoolCallDone /\ lastCall.outcome = "error" /\ lastCall.op = "createCluster"
    /\ lastCall.taken = 2 /\ lastCall.held = 0
    /\ PoolQuiet /\ FreeConnections = PoolSize

\* A call that held two connections has returned, and the pool is whole.
NestedCallReturned ==
    /\ PoolCallDone /\ lastCall.outcome = "ok" /\ lastCall.op = "createCluster"
    /\ clusterDetails # {} /\ PoolQuiet /\ FreeConnections = PoolSize

\* Every connection of the pool is held at once.
PoolExhausted == FreeConnections = 0


\* An add_memory tool call that named a cluster has returned, and nothing was
\* called since.
AddedToCluster == lastCall.op = "add_memory" /\ "clusterId" \in DOMAIN lastCall

\* C40: after an add_memory tool call that names a cluster, every answer of
\* getMemoriesByCluster for that cluster holds the new memory.
C40_AddMemoryLinksCluster ==
    (AddedToCluster /\ lastCall.clusterId \in clusters) =>
        \A rows \in getMemoriesByCluster(memories, lastCall.clusterId) :
            \E i \in DOMAIN rows : rows[i].id = lastCall.id

\* What holds: the tool call stores the memory, and stores it with no
\* cluster.
AddMemoryStoresUnlinked ==
    AddedToCluster =>
        \E i \in DOMAIN memories :
            memories[i].id = lastCall.id /\ memories[i].clusterId = 0

\* provider.addMemory with the clusterId in its entry stores the memory in
\* the cluster.
ProviderAddLinks ==
    (lastCall.op = "addMemory" /\ "clusterId" \in DOMAIN lastCall
                               /\ lastCall.outcome = "ok") =>
        \A rows \in getMemoriesByCluster(memories, lastCall.clusterId) :
            \E i \in DOMAIN rows : rows[i].id = memories[Len(memories)].id

\* A tool call has named an existing cluster that holds another memory.
ToolNamedExistingCluster ==
    /\ AddedToCluster /\ lastCall.clusterId \in clusters
    /\ \E i \in DOMAIN memories : memories[i].clusterId = lastCall.clusterId

====
